---- MODULE Spec2Model ----
(***************************************************************************)
(* Seat inventory and order settlement engine of the ticket bot.           *)
(*                                                                         *)
(* The committed database (seats, orders, user sessions) is the shared     *)
(* state.  Every request handler runs in a slot of Procs and advances one  *)
(* awaited database statement at a time, so handlers interleave exactly    *)
(* where the code awaits.  Statements inside prisma.$transaction /         *)
(* withTransaction write into the transaction's private write set, hold    *)
(* the row locks of the rows they wrote (and, with SELECT ... FOR UPDATE,  *)
(* of the rows they read) and become visible at COMMIT; a failure rolls    *)
(* the write set back.  Statements outside a transaction autocommit.       *)
(*                                                                         *)
(* impl selects the data layer: "prisma" is src/lib/db.ts (plain reads     *)
(* inside the transaction), "pg" is src/unnamed/part_001 (SELECT ... FOR   *)
(* UPDATE, CURRENT_TIMESTAMP).                                             *)
(***************************************************************************)
EXTENDS Integers, Sequences, FiniteSets, TLC

VARIABLES impl, now, shows, seat, orders, sessions, pc, op, loc, wr, lk, ret, hist

vars == <<impl, now, shows, seat, orders, sessions, pc, op, loc, wr, lk, ret, hist>>

db == <<shows, seat, orders, sessions>>

\* ------------------------------------------------------------------ bounds

MaxProcs == 2
MaxOrders == 2
MaxTime == 2
SeedRows == 1
SeedCols == 2
SeedPrice == 1

\* HOLD_MINUTES (environment, default "10"), in ticks of the model clock
HOLD_MINUTES == 1

\* the highest unit price the dashboard sets
MaxPrice == 2

NULL == "null"

\* a nullable column or value: Nil is null, Some(x) is the value x
Nil == <<>>
Some(x) == <<x>>
Val(o) == o[1]

\* what a handler gave back: nothing yet, a value, or a thrown error
NoRet == [tag |-> "none", val |-> NULL]
Returned(v) == [tag |-> "ok", val |-> v]
Thrown == [tag |-> "error", val |-> NULL]
Users == {"u1", "u2"}
Admins == {"admin-dashboard"}
Procs == 1..MaxProcs
ShowIds == {1}
Impls == {"prisma", "pg"}

\* ------------------------------------------------------------------ text

Alphabet == <<"A", "B", "C", "D", "E", "F", "G", "H", "I", "J", "K", "L", "M",
              "N", "O", "P", "Q", "R", "S", "T", "U", "V", "W", "X", "Y", "Z">>

DigitChars == <<"0", "1", "2", "3", "4", "5", "6", "7", "8", "9">>

\* String(col) of a positive column number, as a sequence of characters
RECURSIVE Digits(_)
Digits(n) ==
    IF n < 10 THEN <<DigitChars[n + 1]>>
    ELSE Digits(n \div 10) \o <<DigitChars[(n % 10) + 1]>>

\* `${letter}${col}`
SeatCode(letter, col) == <<letter>> \o Digits(col)

\* "ABC...".slice(0, rows)
Slice(rows) == SubSeq(Alphabet, 1, IF rows > 26 THEN 26 ELSE rows)

\* the seat codes seedSeats inserts for a rows x cols grid
SeedCodes(rows, cols) ==
    {SeatCode(Slice(rows)[r], c) : r \in 1..Len(Slice(rows)), c \in 1..cols}

\* Array.prototype.join(",")
RECURSIVE Join(_)
Join(list) ==
    IF Len(list) = 0 THEN <<>>
    ELSE IF Len(list) = 1 THEN list[1]
    ELSE list[1] \o <<",">> \o Join(Tail(list))

\* String.prototype.split(","): the pieces between the delimiters
RECURSIVE SplitAcc(_, _, _)
SplitAcc(text, cur, acc) ==
    IF Len(text) = 0 THEN Append(acc, cur)
    ELSE IF Head(text) = "," THEN SplitAcc(Tail(text), <<>>, Append(acc, cur))
    ELSE SplitAcc(Tail(text), Append(cur, Head(text)), acc)

\* text.split(",").filter(Boolean)
SplitSeats(text) == SelectSeq(SplitAcc(text, <<>>, <<>>), LAMBDA s : Len(s) > 0)

\* rank of a character in the collation used by ORDER BY seat_code
CharRank(ch) ==
    IF \E i \in 1..10 : DigitChars[i] = ch
    THEN CHOOSE i \in 1..10 : DigitChars[i] = ch
    ELSE 10 + (CHOOSE i \in 1..26 : Alphabet[i] = ch)

RECURSIVE CodeLess(_, _)
CodeLess(a, b) ==
    IF Len(a) = 0 THEN Len(b) > 0
    ELSE IF Len(b) = 0 THEN FALSE
    ELSE IF Head(a) = Head(b) THEN CodeLess(Tail(a), Tail(b))
    ELSE CharRank(Head(a)) < CharRank(Head(b))

\* the codes of a set in ascending order (orderBy: { seatCode: "asc" })
RECURSIVE SortCodes(_)
SortCodes(S) ==
    IF S = {} THEN <<>>
    ELSE LET m == CHOOSE x \in S : \A y \in S \ {x} : CodeLess(x, y)
         IN <<m>> \o SortCodes(S \ {m})

SeqToSet(s) == {s[i] : i \in 1..Len(s)}

\* ------------------------------------------------------------------ rows

SeatKeys == {<<s, c>> : s \in ShowIds, c \in SeedCodes(SeedRows, SeedCols)}

\* a seat row as inserted by seedSeats (status defaults to available)
FreshSeat == [status |-> "available", held_by |-> NULL, hold_until |-> Nil, buyer_id |-> NULL]

NoWrites == [seat |-> <<>>, orders |-> <<>>, sessDel |-> {}]

\* the fields of a submitted dashboard form: each is Nil when the form has no
\* such field (formData.get gives null), else Some(text)
NoForm == [title |-> Nil, startsAt |-> Nil, rows |-> Nil, cols |-> Nil, price |-> Nil,
           showId |-> Nil, orderId |-> Nil]

NoOp == [kind |-> NULL, user |-> NULL, show |-> NULL, code |-> NULL, order |-> NULL,
         admin |-> NULL, receipt |-> NULL, t0 |-> 0, avail |-> FALSE, rival |-> FALSE,
         form |-> NoForm, cookie |-> Nil]

\* the locals of a handler: each is Nil until the handler assigns it
NoLoc == [order |-> Nil, show |-> Nil, seats |-> Nil, total |-> Nil, id |-> Nil, result |-> NoRet]

\* what an observer of the requests has recorded (it steers no handler):
\* trail, the toggles completed on a seat; seen, the seat row when the toggle
\* in progress was called; lapsed, the seats whose hold ran out; spent, the
\* buyers whose waiting-receipt session already gave an order; last, the
\* latest statement on the seat table with the table as it was before;
\* quote, the unit price each buyer's latest confirm read; priced, the
\* quote behind each order; listed, the seat list each order was created with
NoHist == [trail |-> <<>>, seen |-> FreshSeat, lapsed |-> {}, spent |-> {}, last |-> Nil,
           quote |-> [u \in {"u1", "u2"} |-> 0], priced |-> <<>>, listed |-> <<>>]

SeatRow(k) == <<"seat", k>>
OrderRow(id) == <<"order", id>>
SessionRow(u) == <<"session", u>>

\* ------------------------------------------------------------------ transactions

\* a row some other open transaction holds a lock on
LockedByOther(p, row) == \E q \in Procs \ {p} : row \in lk[q]

\* a row any open transaction holds a lock on (seen by an autocommit statement)
Locked(row) == \E q \in Procs : row \in lk[q]

\* what transaction p reads: the committed row, or its own uncommitted write
SeatView(p, k) == IF k \in DOMAIN wr[p].seat THEN wr[p].seat[k] ELSE seat[k]

OrderView(p, id) == IF id \in DOMAIN wr[p].orders THEN wr[p].orders[id] ELSE orders[id]

\* the clock a statement of transaction p sees: new Date() / Date.now() is the
\* time of the call (db.ts); CURRENT_TIMESTAMP is the time the transaction
\* began, op[p].t0 (part_001)
TxNow(p) == IF impl = "pg" THEN op[p].t0 ELSE now

\* a faulty test that takes a hold ending at t for run out
ExpiredOrDue(row, t) == row.status = "held" /\ row.hold_until # Nil /\ Val(row.hold_until) <= t

\* WHERE status = 'held' AND hold_until IS NOT NULL AND hold_until < t
Expired(row, t) == row.status = "held" /\ row.hold_until # Nil /\ Val(row.hold_until) < t

\* a faulty release that leaves the expiry on the row
ReleasedKeepingExpiry(row) == [row EXCEPT !.status = "available", !.held_by = NULL]

\* SET status = 'available', held_by = NULL, hold_until = NULL
Released(row) == [row EXCEPT !.status = "available", !.held_by = NULL, !.hold_until = Nil]

\* no handler has a response waiting to be delivered
Quiet == \A q \in Procs : pc[q] # "done"

\* handler p is about to run the statement at label
At(p, label) == pc[p] = label /\ Quiet

\* a handler starts in the lowest free slot
Start(p, o, first) ==
    /\ At(p, "idle")
    /\ \A q \in Procs : q < p => pc[q] # "idle"
    /\ pc' = [pc EXCEPT ![p] = first]
    /\ op' = [op EXCEPT ![p] = o]
    /\ UNCHANGED <<impl, now, shows, seat, orders, sessions, loc, wr, lk, ret>>

\* the response of handler p is delivered and its slot is free again
Deliver(p) ==
    /\ pc[p] = "done"
    /\ pc' = [pc EXCEPT ![p] = "idle"]
    /\ op' = [op EXCEPT ![p] = NoOp]
    /\ loc' = [loc EXCEPT ![p] = NoLoc]
    /\ ret' = [ret EXCEPT ![p] = NoRet]
    /\ UNCHANGED <<impl, now, shows, seat, orders, sessions, wr, lk>>

\* history: a toggle of another user, in flight on the same seat at the same
\* clock reading, is marked when p returns held for a seat it found available;
\* the mark is dropped when a later commit writes that seat row again
MarkRivals(p) ==
    [q \in Procs |->
        IF /\ q # p /\ op[p].kind = "toggle" /\ loc[p].result = Returned("held")
           /\ op[p].avail /\ op[p].t0 = now /\ op[q].t0 = now
           /\ pc[q] \in {"t_release", "t_read", "t_write", "commit"} /\ op[q].kind = "toggle"
           /\ op[q].show = op[p].show /\ op[q].code = op[p].code /\ op[q].user # op[p].user
        THEN [op[q] EXCEPT !.rival = TRUE]
        ELSE IF q # p /\ op[q].kind = "toggle" /\ <<op[q].show, op[q].code>> \in DOMAIN wr[p].seat
        THEN [op[q] EXCEPT !.rival = FALSE]
        ELSE op[q]]

\* the handler returns r
Finish(p, r) ==
    /\ pc' = [pc EXCEPT ![p] = "done"]
    /\ ret' = [ret EXCEPT ![p] = r]
    /\ loc' = loc

\* the database after the write set of p is applied
CommittedSeat(p) == [k \in DOMAIN seat |-> SeatView(p, k)]

CommittedOrders(p) == [i \in 1..Len(orders) |-> OrderView(p, i)]

CommittedSessions(p) == [u \in Users |-> IF u \in wr[p].sessDel THEN Nil ELSE sessions[u]]

TxPcs == {"t_release", "t_read", "t_write", "s_read", "s_seats", "s_order", "s_session", "commit"}

\* COMMIT: the write set becomes visible as one unit and the row locks are released
Commit(p) ==
    /\ At(p, "commit")
    /\ seat' = CommittedSeat(p)
    /\ orders' = CommittedOrders(p)
    /\ sessions' = CommittedSessions(p)
    /\ wr' = [wr EXCEPT ![p] = NoWrites]
    /\ lk' = [lk EXCEPT ![p] = {}]
    /\ pc' = [pc EXCEPT ![p] = "done"]
    /\ ret' = [ret EXCEPT ![p] = loc[p].result]
    /\ op' = MarkRivals(p)
    /\ UNCHANGED <<impl, now, shows, loc>>

\* a faulty ROLLBACK that keeps the seat writes of the failed transaction
KeptSeatWrites(p) == [k \in DOMAIN seat |-> IF k \in DOMAIN wr[p].seat THEN wr[p].seat[k] ELSE seat[k]]

\* what a failed transaction leaves in the database
RolledBackSeat(p) == seat

RolledBackOrders(p) == orders

RolledBackSessions(p) == sessions

\* a statement or the COMMIT fails: ROLLBACK, the error is rethrown to the caller
Abort(p) ==
    /\ pc[p] \in TxPcs
    /\ Quiet
    /\ seat' = RolledBackSeat(p)
    /\ orders' = RolledBackOrders(p)
    /\ sessions' = RolledBackSessions(p)
    /\ wr' = [wr EXCEPT ![p] = NoWrites]
    /\ lk' = [lk EXCEPT ![p] = {}]
    /\ pc' = [pc EXCEPT ![p] = "done"]
    /\ ret' = [ret EXCEPT ![p] = Thrown]
    /\ UNCHANGED <<impl, now, shows, op, loc>>

\* ------------------------------------------------------------------ toggleSeat

\* the togseat callback calls toggleSeat(showId, seatCode, userId, HOLD_MINUTES)
BeginToggle(p, K) ==
    \E u \in Users, k \in K :
        Start(p, [NoOp EXCEPT !.kind = "toggle", !.user = u, !.show = k[1], !.code = k[2],
                              !.t0 = now, !.avail = (k \in DOMAIN seat /\ seat[k].status = "available")],
              "t_release")

\* a faulty release whose WHERE clause leaves out the seat code
ShowReleaseKeys(p) ==
    {k \in DOMAIN seat : k[1] = op[p].show /\ Expired(SeatView(p, k), TxNow(p))}

\* the rows matched by WHERE show_id = showId AND seat_code = seatCode AND
\* status = 'held' AND hold_until < now
ToggleReleaseKeys(p) ==
    {k \in DOMAIN seat : k = <<op[p].show, op[p].code>> /\ Expired(SeatView(p, k), TxNow(p))}

\* first statement: release this seat's expired hold
ToggleRelease(p) ==
    /\ At(p, "t_release")
    /\ IF ToggleReleaseKeys(p) # {}
       THEN /\ \A k \in ToggleReleaseKeys(p) : ~LockedByOther(p, SeatRow(k))
            /\ wr' = [wr EXCEPT ![p].seat =
                         [k \in ToggleReleaseKeys(p) |-> Released(SeatView(p, k))] @@ @]
            /\ lk' = [lk EXCEPT ![p] = @ \cup {SeatRow(k) : k \in ToggleReleaseKeys(p)}]
       ELSE UNCHANGED <<wr, lk>>
    /\ pc' = [pc EXCEPT ![p] = "t_read"]
    /\ UNCHANGED <<impl, now, shows, seat, orders, sessions, op, loc, ret>>

\* whether the read of the seat row takes the row lock (SELECT ... FOR UPDATE)
SeatReadLocks == impl = "pg"

\* a grant that takes a sold seat for a free one
SoldIsFree(row, userId) ==
    IF row.status = "held" /\ row.held_by # NULL /\ row.held_by # userId THEN "held-by-other"
    ELSE IF row.status = "held" /\ row.held_by = userId THEN "available"
    ELSE "held"

\* a grant that ignores the hold of another buyer
TakeOver(row, userId) ==
    IF row.status = "sold" THEN "sold"
    ELSE IF row.status = "held" /\ row.held_by = userId THEN "available"
    ELSE "held"

\* the branch toggleSeat takes on the row it read
ToggleOutcome(row, userId) ==
    IF row.status = "sold" THEN "sold"
    ELSE IF row.status = "held" /\ row.held_by # NULL /\ row.held_by # userId THEN "held-by-other"
    ELSE IF row.status = "held" /\ row.held_by = userId THEN "available"
    ELSE "held"

\* a faulty toggle that reports a seat that does not exist as sold
SeatTakenForSold == Returned("sold")

\* throw new Error("Seat not found")
SeatNotFound == Thrown

\* second statement: read the seat row, then branch on it; no such row ->
\* throw new Error("Seat not found"), which rolls the transaction back
ToggleRead(p) ==
    /\ At(p, "t_read")
    /\ LET k == <<op[p].show, op[p].code>> IN
       IF k \notin DOMAIN seat
       THEN /\ wr' = [wr EXCEPT ![p] = NoWrites]
            /\ lk' = [lk EXCEPT ![p] = {}]
            /\ Finish(p, SeatNotFound)
       ELSE LET row == SeatView(p, k)
                out == ToggleOutcome(row, op[p].user)
            IN /\ IF SeatReadLocks
                  THEN /\ ~LockedByOther(p, SeatRow(k))
                       /\ lk' = [lk EXCEPT ![p] = @ \cup {SeatRow(k)}]
                  ELSE UNCHANGED lk
               /\ loc' = [loc EXCEPT ![p].result = Returned(out)]
               /\ pc' = [pc EXCEPT ![p] = IF out \in {"sold", "held-by-other"}
                                          THEN "commit" ELSE "t_write"]
               /\ UNCHANGED <<wr, ret>>
    /\ UNCHANGED <<impl, now, shows, seat, orders, sessions, op>>

\* a faulty acquire whose hold ends at the time of the call
HeldNoMinutes(p, cur) ==
    IF loc[p].result = Returned("available")
    THEN Released(cur)
    ELSE [cur EXCEPT !.status = "held", !.held_by = op[p].user, !.hold_until = Some(TxNow(p))]

\* the row toggleSeat writes for the branch it took
ToggleWriteRow(p, cur) ==
    IF loc[p].result = Returned("available")
    THEN Released(cur)
    ELSE [cur EXCEPT !.status = "held", !.held_by = op[p].user,
                     !.hold_until = Some(TxNow(p) + HOLD_MINUTES)]

\* third statement: release the caller's own hold, or acquire the seat
ToggleWrite(p) ==
    /\ At(p, "t_write")
    /\ LET k == <<op[p].show, op[p].code>> IN
       /\ ~LockedByOther(p, SeatRow(k))
       /\ wr' = [wr EXCEPT ![p].seat = (k :> ToggleWriteRow(p, SeatView(p, k))) @@ @]
       /\ lk' = [lk EXCEPT ![p] = @ \cup {SeatRow(k)}]
    /\ pc' = [pc EXCEPT ![p] = "commit"]
    /\ UNCHANGED <<impl, now, shows, seat, orders, sessions, op, loc, ret>>

\* ------------------------------------------------------------------ hold manager

\* releaseExpiredHolds(showId) as one autocommitted UPDATE at time t
ReleaseExpiredHolds(s, t) ==
    [k \in DOMAIN seat |-> IF k[1] = s /\ Expired(seat[k], t) THEN Released(seat[k]) ELSE seat[k]]

\* seatStatusMap(showId): reconcile, then read (buildSeatsKeyboard, any handler)
SeatStatusMapOf(s) ==
    /\ Quiet
    /\ \A k \in DOMAIN seat : (k[1] = s /\ Expired(seat[k], now)) => ~Locked(SeatRow(k))
    /\ seat' = ReleaseExpiredHolds(s, now)
    /\ UNCHANGED <<impl, now, shows, orders, sessions, pc, op, loc, wr, lk, ret>>

SeatStatusMap == \E s \in DOMAIN shows : SeatStatusMapOf(s)

\* time passes
Tick ==
    /\ Quiet
    /\ now < MaxTime
    /\ now' = now + 1
    /\ UNCHANGED <<impl, shows, seat, orders, sessions, pc, op, loc, wr, lk, ret>>

\* ------------------------------------------------------------------ approveOrder / rejectOrder

\* getOrder(orderId): the stored row with its seat list split back, or null
GetOrder(id) ==
    IF id \notin 1..Len(orders) THEN Nil
    ELSE Some([id |-> id, user_id |-> orders[id].user_id, show_id |-> orders[id].show_id,
               seats |-> SplitSeats(orders[id].seats), amount |-> orders[id].amount,
               status |-> orders[id].status])

\* the approve / reject callbacks and dashboard actions
BeginSettle(p) ==
    \E kind \in {"approve", "reject"}, id \in 1..MaxOrders, a \in Admins :
        Start(p, [NoOp EXCEPT !.kind = kind, !.order = id, !.admin = a, !.t0 = now], "s_read")

\* whether the read of the order row takes the row lock (SELECT ... FOR UPDATE)
OrderReadLocks == impl = "pg"

\* a faulty record that reports the first seat of the list only
OrderRecordFirstSeat(id, row, status) ==
    [id |-> id, user_id |-> row.user_id, show_id |-> row.show_id,
     seats |-> SubSeq(SplitSeats(row.seats), 1, 1), amount |-> row.amount, status |-> status]

\* the OrderRecord returned to the caller
OrderRecord(id, row, status) ==
    [id |-> id, user_id |-> row.user_id, show_id |-> row.show_id,
     seats |-> SplitSeats(row.seats), amount |-> row.amount, status |-> status]

\* a faulty settlement that skips the pending check
SettleAlways(row) == TRUE

\* whether the settlement goes on to mutate after reading the order row
SettleProceeds(row) == row.status = "pending"

\* first statement: read the order; absent -> null, not pending -> the order as it is
SettleRead(p) ==
    /\ At(p, "s_read")
    /\ LET id == op[p].order IN
       IF id \notin 1..Len(orders)
       THEN /\ loc' = [loc EXCEPT ![p].result = Returned(Nil)]
            /\ pc' = [pc EXCEPT ![p] = "commit"]
            /\ UNCHANGED lk
       ELSE LET row == OrderView(p, id) IN
            /\ IF OrderReadLocks
               THEN /\ ~LockedByOther(p, OrderRow(id))
                    /\ lk' = [lk EXCEPT ![p] = @ \cup {OrderRow(id)}]
               ELSE UNCHANGED lk
            /\ IF SettleProceeds(row)
               THEN /\ loc' = [loc EXCEPT ![p].order = Some(row),
                                          ![p].seats = Some(SplitSeats(row.seats))]
                    /\ pc' = [pc EXCEPT ![p] = "s_seats"]
               ELSE /\ loc' = [loc EXCEPT ![p].order = Some(row),
                                          ![p].result = Returned(Some(OrderRecord(id, row, row.status)))]
                    /\ pc' = [pc EXCEPT ![p] = "commit"]
    /\ UNCHANGED <<impl, now, shows, seat, orders, sessions, op, wr, ret>>

\* a faulty match that leaves out the seat codes
ShowSettleKeys(p) == {k \in DOMAIN seat : k[1] = Val(loc[p].order).show_id}

\* the seat rows matched by WHERE show_id = order.show_id AND seat_code IN seats
SettleKeys(p) ==
    {k \in DOMAIN seat : k[1] = Val(loc[p].order).show_id /\ k[2] \in SeqToSet(Val(loc[p].seats))}

\* a faulty approval that sells the seat but leaves the hold on it
SoldKeepingHold(cur, userId) == [cur EXCEPT !.status = "sold", !.buyer_id = userId]

\* approveOrder: SET status = 'sold', buyer_id = order.user_id, held_by = NULL, hold_until = NULL
ApprovedSeat(cur, userId) ==
    [cur EXCEPT !.status = "sold", !.buyer_id = userId, !.held_by = NULL, !.hold_until = Nil]

\* rejectOrder: SET status = 'available', held_by = NULL, hold_until = NULL
RejectedSeat(cur) ==
    [cur EXCEPT !.status = "available", !.held_by = NULL, !.hold_until = Nil]

\* second statement: one UPDATE over the order's seats (skipped for an empty list)
SettleSeats(p) ==
    /\ At(p, "s_seats")
    /\ \A k \in SettleKeys(p) : ~LockedByOther(p, SeatRow(k))
    /\ wr' = [wr EXCEPT ![p].seat =
                [k \in SettleKeys(p) |->
                    IF op[p].kind = "approve"
                    THEN ApprovedSeat(SeatView(p, k), Val(loc[p].order).user_id)
                    ELSE RejectedSeat(SeatView(p, k))] @@ @]
    /\ lk' = [lk EXCEPT ![p] = @ \cup {SeatRow(k) : k \in SettleKeys(p)}]
    /\ pc' = [pc EXCEPT ![p] = "s_order"]
    /\ UNCHANGED <<impl, now, shows, seat, orders, sessions, op, loc, ret>>

\* approveOrder: status, paidAt and adminId; rejectOrder: status and adminId
SettledOrder(cur, kind, adminId, t) ==
    IF kind = "approve"
    THEN [cur EXCEPT !.status = "approved", !.paid_at = Some(t), !.admin_id = adminId]
    ELSE [cur EXCEPT !.status = "rejected", !.admin_id = adminId]

\* third statement: update the order row
SettleOrder(p) ==
    /\ At(p, "s_order")
    /\ LET id == op[p].order IN
       /\ ~LockedByOther(p, OrderRow(id))
       /\ wr' = [wr EXCEPT ![p].orders =
                    (id :> SettledOrder(OrderView(p, id), op[p].kind, op[p].admin, TxNow(p))) @@ @]
       /\ lk' = [lk EXCEPT ![p] = @ \cup {OrderRow(id)}]
    /\ pc' = [pc EXCEPT ![p] = "s_session"]
    /\ UNCHANGED <<impl, now, shows, seat, orders, sessions, op, loc, ret>>

\* a faulty delete whose WHERE clause leaves out the user
AllSessionDeletes(p) == {u \in Users : sessions[u] # Nil}

\* the session rows the settlement deletes
SettleSessionDeletes(p) ==
    IF sessions[Val(loc[p].order).user_id] # Nil THEN {Val(loc[p].order).user_id} ELSE {}

\* fourth statement: delete the buyer's session row, then return the settled order
SettleSession(p) ==
    /\ At(p, "s_session")
    /\ \A u \in SettleSessionDeletes(p) : ~LockedByOther(p, SessionRow(u))
    /\ wr' = [wr EXCEPT ![p].sessDel = @ \cup SettleSessionDeletes(p)]
    /\ lk' = [lk EXCEPT ![p] = @ \cup {SessionRow(u) : u \in SettleSessionDeletes(p)}]
    /\ loc' = [loc EXCEPT ![p].result =
                  Returned(Some([id |-> op[p].order, user_id |-> Val(loc[p].order).user_id,
                                 show_id |-> Val(loc[p].order).show_id,
                                 seats |-> Val(loc[p].seats),
                                 amount |-> Val(loc[p].order).amount,
                                 status |-> IF op[p].kind = "approve" THEN "approved"
                                                                      ELSE "rejected"]))]
    /\ pc' = [pc EXCEPT ![p] = "commit"]
    /\ UNCHANGED <<impl, now, shows, seat, orders, sessions, op, ret>>

\* ------------------------------------------------------------------ confirm callback

BeginConfirm(p) ==
    \E u \in Users, s \in DOMAIN shows :
        Start(p, [NoOp EXCEPT !.kind = "confirm", !.user = u, !.show = s], "c_held")

\* heldSeats(showId, userId): the codes held by the user, ascending
HeldSeats(s, u) ==
    SortCodes({k[2] : k \in {x \in DOMAIN seat : x[1] = s /\ seat[x].held_by = u /\ seat[x].status = "held"}})

\* const seats = await heldSeats(...); nothing held -> alert and return
ConfirmHeld(p) ==
    /\ At(p, "c_held")
    /\ LET seats == HeldSeats(op[p].show, op[p].user) IN
       IF Len(seats) = 0
       THEN Finish(p, Returned("nothing-held"))
       ELSE /\ loc' = [loc EXCEPT ![p].seats = Some(seats)]
            /\ pc' = [pc EXCEPT ![p] = "c_show"]
            /\ UNCHANGED ret
    /\ UNCHANGED <<impl, now, shows, seat, orders, sessions, op, wr, lk>>

\* a faulty total that charges one seat whatever the number of seats
UnitTotal(show, seats) == show.price

\* const total = show.price * seats.length
Total(show, seats) == show.price * Len(seats)

\* const show = await getShow(showId); total = show.price * seats.length
ConfirmShow(p) ==
    /\ At(p, "c_show")
    /\ loc' = [loc EXCEPT ![p].total = Some(Total(shows[op[p].show], Val(loc[p].seats)))]
    /\ pc' = [pc EXCEPT ![p] = "c_freeze"]
    /\ UNCHANGED <<impl, now, shows, seat, orders, sessions, op, wr, lk, ret>>

\* a faulty freeze whose WHERE clause leaves out the show
FreezeAnyShow(s, u) ==
    [k \in DOMAIN seat |->
        IF seat[k].held_by = u /\ seat[k].status = "held"
        THEN [seat[k] EXCEPT !.hold_until = Nil]
        ELSE seat[k]]

\* freezeHeldSeats(showId, userId): SET hold_until = NULL on the user's held seats
FreezeHeldSeats(s, u) ==
    [k \in DOMAIN seat |->
        IF k[1] = s /\ seat[k].held_by = u /\ seat[k].status = "held"
        THEN [seat[k] EXCEPT !.hold_until = Nil]
        ELSE seat[k]]

ConfirmFreeze(p) ==
    /\ At(p, "c_freeze")
    /\ \A k \in DOMAIN seat :
         (k[1] = op[p].show /\ seat[k].held_by = op[p].user /\ seat[k].status = "held")
            => ~Locked(SeatRow(k))
    /\ seat' = FreezeHeldSeats(op[p].show, op[p].user)
    /\ pc' = [pc EXCEPT ![p] = "c_state"]
    /\ UNCHANGED <<impl, now, shows, orders, sessions, op, loc, wr, lk, ret>>

\* the user_sessions row setUserState inserts (seats joined with ",")
SessionRowOf(state, showId, seats, total) ==
    [state |-> state, show_id |-> showId,
     seats |-> IF seats # Nil THEN Some(Join(Val(seats))) ELSE Nil,
     total |-> total]

\* the state record a handler passes to setUserState
StateArg(p) ==
    IF op[p].kind = "buy"
    THEN [state |-> "picking_show", show_id |-> Nil, seats |-> Nil, total |-> Nil]
    ELSE IF op[p].kind = "show"
    THEN [state |-> "picking_seats", show_id |-> Some(op[p].show), seats |-> Nil, total |-> Nil]
    ELSE [state |-> "waiting_receipt", show_id |-> Some(op[p].show),
          seats |-> loc[p].seats, total |-> loc[p].total]

\* setUserState(state): the row the upsert leaves where old was; db.ts passes
\* showId: state.show_id ?? undefined, and an undefined field of the update
\* leaves the column as it is; part_001 sets show_id = EXCLUDED.show_id
SetUserState(old, st) ==
    LET new == SessionRowOf(st.state, st.show_id, st.seats, st.total) IN
    IF impl = "prisma" /\ old # Nil /\ st.show_id = Nil
    THEN Some([new EXCEPT !.show_id = Val(old).show_id])
    ELSE Some(new)

\* await setUserState({...}), the last statement of buy, show and confirm
\* that changes the database
WriteState(p, label, answer) ==
    /\ At(p, label)
    /\ ~Locked(SessionRow(op[p].user))
    /\ sessions' = [sessions EXCEPT ![op[p].user] = SetUserState(@, StateArg(p))]
    /\ Finish(p, Returned(answer))
    /\ UNCHANGED <<impl, now, shows, seat, orders, op, wr, lk>>

\* setUserState({state: "waiting_receipt", show_id, seats, total})
ConfirmState(p) == WriteState(p, "c_state", "waiting_receipt")

\* ------------------------------------------------------------------ buy command, show callback

BeginBuy(p) ==
    \E u \in Users : Start(p, [NoOp EXCEPT !.kind = "buy", !.user = u], "b_list")

\* const shows = await listShows(); no show -> reply and return
BuyList(p) ==
    /\ At(p, "b_list")
    /\ IF DOMAIN shows = {}
       THEN Finish(p, Returned("no-shows"))
       ELSE /\ pc' = [pc EXCEPT ![p] = "b_state"]
            /\ UNCHANGED <<loc, ret>>
    /\ UNCHANGED <<impl, now, shows, seat, orders, sessions, op, wr, lk>>

\* setUserState({state: "picking_show", show_id: null, seats: null, total: null})
BuyState(p) == WriteState(p, "b_state", "picking_show")

\* the show callback, for the id of a show there is or of one there is not
BeginShow(p) ==
    \E u \in Users, s \in DOMAIN shows \cup {Cardinality(DOMAIN shows) + 1} :
        Start(p, [NoOp EXCEPT !.kind = "show", !.user = u, !.show = s], "p_show")

\* const show = await getShow(showId); no such show -> alert and return
PickShow(p) ==
    /\ At(p, "p_show")
    /\ IF op[p].show \notin DOMAIN shows
       THEN Finish(p, Returned("show-not-found"))
       ELSE /\ pc' = [pc EXCEPT ![p] = "p_map"]
            /\ UNCHANGED <<loc, ret>>
    /\ UNCHANGED <<impl, now, shows, seat, orders, sessions, op, wr, lk>>

\* buildSeatsKeyboard: seatStatusMap(showId) releases the holds that ran out
PickMap(p) ==
    /\ At(p, "p_map")
    /\ \A k \in DOMAIN seat : (k[1] = op[p].show /\ Expired(seat[k], now)) => ~Locked(SeatRow(k))
    /\ seat' = ReleaseExpiredHolds(op[p].show, now)
    /\ pc' = [pc EXCEPT ![p] = "p_state"]
    /\ UNCHANGED <<impl, now, shows, orders, sessions, op, loc, wr, lk, ret>>

\* setUserState({state: "picking_seats", show_id: showId, seats: null, total: null})
PickState(p) == WriteState(p, "p_state", "picking_seats")

\* ------------------------------------------------------------------ dashboard: show settings

\* a faulty update whose WHERE clause leaves out the show id
AllPricesUpdated(showId, price) == [t \in DOMAIN shows |-> [shows[t] EXCEPT !.price = price]]

\* prisma.show.update({ where: { id: showId }, data: { price } })
PriceUpdated(showId, price) == [shows EXCEPT ![showId].price = price]

\* updateShowSettingsAction(formData) of an operator who is logged in
UpdateShowSettingsAction(showId, price) ==
    /\ Quiet
    /\ showId \in DOMAIN shows
    /\ shows' = PriceUpdated(showId, price)
    /\ UNCHANGED <<impl, now, seat, orders, sessions, pc, op, loc, wr, lk, ret>>

\* ------------------------------------------------------------------ dashboard: forms

\* the most shows the table holds (the seeded show and those created)
MaxShows == 2

\* ADMIN_SESSION_TTL_MS, in ticks of the model clock
SessionTtl == 2

\* the key a session cookie was signed with: the ADMIN_PASSWORD of the
\* environment, or anything else
SigningKeys == {"ADMIN_PASSWORD", "guess"}

\* the admin-session cookies a request may carry: `${issuedAt}.${signature}`
Cookies == {[issuedAt |-> t, key |-> k] : t \in 0..MaxTime, k \in SigningKeys}

\* isAdminAuthenticated(): the cookie is there, its signature is the HMAC of
\* issuedAt under ADMIN_PASSWORD, and it is younger than the TTL
IsAdminAuthenticated(cookie) ==
    /\ cookie # Nil
    /\ Val(cookie).key = "ADMIN_PASSWORD"
    /\ now - Val(cookie).issuedAt < SessionTtl

\* the values of the Number type that a form text converts to
Finite(n) == [kind |-> "finite", n |-> n]
NaN == [kind |-> "nan", n |-> 0]
Infinity == [kind |-> "infinity", n |-> 0]

InfinityText == <<"I", "n", "f", "i", "n", "i", "t", "y">>

\* StrWhiteSpace stripped from both ends of a text
RECURSIVE TrimStart(_)
TrimStart(text) ==
    IF Len(text) > 0 /\ Head(text) = " " THEN TrimStart(Tail(text)) ELSE text

RECURSIVE TrimEnd(_)
TrimEnd(text) ==
    IF Len(text) > 0 /\ text[Len(text)] = " "
    THEN TrimEnd(SubSeq(text, 1, Len(text) - 1)) ELSE text

Trim(text) == TrimEnd(TrimStart(text))

IsDigit(ch) == \E i \in 1..10 : DigitChars[i] = ch

AllDigits(text) == Len(text) > 0 /\ \A i \in 1..Len(text) : IsDigit(text[i])

\* the value of a text of decimal digits
RECURSIVE DecimalValue(_)
DecimalValue(text) ==
    IF Len(text) = 0 THEN 0
    ELSE 10 * DecimalValue(SubSeq(text, 1, Len(text) - 1))
         + (CHOOSE i \in 1..10 : DigitChars[i] = text[Len(text)]) - 1

\* Number(value) of a form text (StringToNumber): white space is stripped, the
\* empty text is 0, a decimal integer with an optional minus sign is its value,
\* Infinity is infinite, anything else is NaN
ToNumber(text) ==
    LET t == Trim(text) IN
    IF Len(t) = 0 THEN Finite(0)
    ELSE IF t = InfinityText THEN Infinity
    ELSE IF AllDigits(t) THEN Finite(DecimalValue(t))
    ELSE IF Head(t) = "-" /\ AllDigits(Tail(t)) THEN Finite(0 - DecimalValue(Tail(t)))
    ELSE NaN

\* parseNumberField(value, { min }): Some(parsed), or Nil when it throws
ParseNumberField(value, min) ==
    IF value = Nil THEN Nil
    ELSE LET parsed == ToNumber(Val(value)) IN
         IF parsed.kind # "finite" THEN Nil
         ELSE IF parsed.n < min THEN Nil
         ELSE Some(parsed.n)

\* typeof title === "string" && title.trim().length > 0
TitleGiven(title) == title # Nil /\ Len(Trim(Val(title))) > 0

\* the date text YYYY-MM-DD that new Date(text) turns into a time
DateParses(text) ==
    /\ Len(text) = 10
    /\ text[5] = "-" /\ text[8] = "-"
    /\ AllDigits(SubSeq(text, 1, 4)) /\ AllDigits(SubSeq(text, 6, 7))
    /\ AllDigits(SubSeq(text, 9, 10))
    /\ DecimalValue(SubSeq(text, 6, 7)) \in 1..12
    /\ DecimalValue(SubSeq(text, 9, 10)) \in 1..31

\* startsAtRaw is a non-empty string and new Date(startsAtRaw) is a time
StartsAtGiven(startsAt) ==
    startsAt # Nil /\ Len(Val(startsAt)) > 0 /\ DateParses(Val(startsAt))

\* the texts a numeric form field is submitted with
Text0 == <<"0">>
Text1 == <<"1">>
Text2 == <<"2">>
Text27 == <<"2", "7">>
NumberTexts == {<<>>, <<"x">>, InfinityText, <<"-", "1">>, Text0, Text1}
TitleTexts == {<<" ">>, <<"t">>}
DateTexts == {<<>>, <<"2", "0", "2", "6", "-", "1", "3", "-", "0", "1">>,
              <<"2", "0", "2", "6", "-", "1", "1", "-", "0", "5">>}

Optional(S) == {Nil} \cup {Some(x) : x \in S}

\* the forms submitted to createShowAction
ShowForms ==
    {[NoForm EXCEPT !.title = t, !.startsAt = d, !.rows = r, !.cols = c, !.price = v] :
        t \in Optional(TitleTexts), d \in Optional(DateTexts),
        r \in Optional(NumberTexts \cup {Text27}),
        c \in Optional(NumberTexts \cup {Text2}),
        v \in Optional(NumberTexts \cup {Text2})}

\* the forms submitted to updateShowSettingsAction
SettingsForms ==
    {[NoForm EXCEPT !.showId = s, !.price = v] :
        s \in Optional(NumberTexts \cup {Text2}),
        v \in Optional(NumberTexts \cup {Text2})}

\* the cookie of a dashboard request: none, or one issued up to now
RequestCookies == {Nil} \cup {Some(c) : c \in {x \in Cookies : x.issuedAt <= now}}

\* createShowAction(formData) is called
BeginCreateShow(p) ==
    /\ pc[p] = "idle"
    /\ Cardinality(DOMAIN shows) < MaxShows
    /\ \E f \in ShowForms, c \in RequestCookies :
         Start(p, [NoOp EXCEPT !.kind = "createShow", !.form = f, !.cookie = c], "n_show")

\* the parsed fields of a createShowAction form, in the order the code reads
\* them; Nil when the session check redirects or a check throws
ShowFields(f, cookie) ==
    LET rows == ParseNumberField(f.rows, 1)
        cols == ParseNumberField(f.cols, 1)
        price == ParseNumberField(f.price, 0)
    IN IF ~IsAdminAuthenticated(cookie) THEN Nil
       ELSE IF rows = Nil \/ cols = Nil \/ price = Nil THEN Nil
       ELSE IF ~TitleGiven(f.title) THEN Nil
       ELSE IF ~StartsAtGiven(f.startsAt) THEN Nil
       ELSE Some([rows |-> Val(rows), cols |-> Val(cols), price |-> Val(price)])

\* the session check, the field checks and prisma.show.create({ data })
CreateShow(p) ==
    /\ At(p, "n_show")
    /\ LET data == ShowFields(op[p].form, op[p].cookie)
           id == Cardinality(DOMAIN shows) + 1
       IN IF data = Nil
          THEN /\ Finish(p, Thrown)
               /\ UNCHANGED shows
          ELSE /\ shows' = (id :> Val(data)) @@ shows
               /\ pc' = [pc EXCEPT ![p] = "n_seed"]
               /\ loc' = [loc EXCEPT ![p].show = Some(id)]
               /\ ret' = ret
    /\ UNCHANGED <<impl, now, seat, orders, sessions, op, wr, lk>>

\* the seat table after seedSeats(showId, rows, cols): createMany with
\* skipDuplicates
SeatsSeeded(showId, rows, cols) ==
    [k \in {<<showId, c>> : c \in SeedCodes(rows, cols)} \ DOMAIN seat |-> FreshSeat] @@ seat

\* await seedSeats(show.id, rows, cols), then the action returns
SeedSeats(p) ==
    /\ At(p, "n_seed")
    /\ LET id == Val(loc[p].show) IN
       seat' = SeatsSeeded(id, shows[id].rows, shows[id].cols)
    /\ Finish(p, Returned(NULL))
    /\ UNCHANGED <<impl, now, shows, orders, sessions, op, wr, lk>>

\* updateShowSettingsAction(formData) is called
BeginSettings(p) ==
    /\ pc[p] = "idle"
    /\ \E f \in SettingsForms, c \in RequestCookies :
         Start(p, [NoOp EXCEPT !.kind = "settings", !.form = f, !.cookie = c], "v_update")

\* the session check, the field checks and prisma.show.update, which throws
\* when no show has the id
SubmitSettings(p) ==
    /\ At(p, "v_update")
    /\ LET showId == ParseNumberField(op[p].form.showId, 1)
           price == ParseNumberField(op[p].form.price, 0)
       IN IF /\ IsAdminAuthenticated(op[p].cookie)
             /\ showId # Nil /\ price # Nil
             /\ Val(showId) \in DOMAIN shows
          THEN /\ shows' = PriceUpdated(Val(showId), Val(price))
               /\ Finish(p, Returned(NULL))
          ELSE /\ Finish(p, Thrown)
               /\ UNCHANGED shows
    /\ UNCHANGED <<impl, now, seat, orders, sessions, op, wr, lk>>

\* ------------------------------------------------------------------ settlement entry points

\* ADMINS (environment): the chat ids the bot sends the receipts to
ADMINS == {"a1"}

\* who a callback query may come from: any chat, or no sender at all
Senders == Users \cup ADMINS \cup {NULL}

\* the forms submitted to approveOrderAction / rejectOrderAction
OrderForms == {[NoForm EXCEPT !.orderId = i] : i \in Optional(NumberTexts \cup {Text2})}

\* a callback query approve:<id> / reject:<id> arrives
BeginCallback(p) ==
    /\ pc[p] = "idle"
    /\ \E kind \in {"approve", "reject"}, id \in 1..MaxOrders, from \in Senders :
         Start(p, [NoOp EXCEPT !.kind = kind, !.order = id, !.user = from], "k_from")

\* whether the callback goes on to settle: if (!adminId) it only answers
CallbackProceeds(from) == from # NULL

\* const adminId = ctx.from?.id; approveOrder(orderId, String(adminId))
CallbackFrom(p) ==
    /\ At(p, "k_from")
    /\ op[p].kind \in {"approve", "reject"}
    /\ IF CallbackProceeds(op[p].user)
       THEN /\ op' = [op EXCEPT ![p].admin = op[p].user, ![p].t0 = now]
            /\ pc' = [pc EXCEPT ![p] = "s_read"]
            /\ UNCHANGED <<loc, ret>>
       ELSE /\ Finish(p, Returned(NULL))
            /\ UNCHANGED op
    /\ UNCHANGED <<impl, now, shows, seat, orders, sessions, wr, lk>>

\* approveOrderAction(formData) / rejectOrderAction(formData) is called
BeginOrderAction(p) ==
    /\ pc[p] = "idle"
    /\ \E kind \in {"approve", "reject"}, f \in OrderForms, c \in RequestCookies :
         Start(p, [NoOp EXCEPT !.kind = kind, !.form = f, !.cookie = c], "a_session")

\* the session check (redirect throws), the orderId field, and the call
\* approveOrder(orderId, "admin-dashboard")
OrderActionSession(p) ==
    /\ At(p, "a_session")
    /\ LET orderId == ParseNumberField(op[p].form.orderId, 1) IN
       IF IsAdminAuthenticated(op[p].cookie) /\ orderId # Nil
       THEN /\ op' = [op EXCEPT ![p].order = Val(orderId), ![p].admin = "admin-dashboard",
                                ![p].t0 = now]
            /\ pc' = [pc EXCEPT ![p] = "s_read"]
            /\ UNCHANGED <<loc, ret>>
       ELSE /\ Finish(p, Thrown)
            /\ UNCHANGED op
    /\ UNCHANGED <<impl, now, shows, seat, orders, sessions, wr, lk>>

\* ------------------------------------------------------------------ receipt message

ReceiptKinds == {"text"}

\* a message of a buyer: a photo, a text, or neither (receipt = null)
BeginMessage(p) ==
    \E u \in Users, r \in ReceiptKinds \cup {NULL} :
        Start(p, [NoOp EXCEPT !.kind = "message", !.user = u, !.receipt = r], "m_get")

\* getUserState(userId): the row with seats split back into a list, or null
GetUserState(u) ==
    IF sessions[u] = Nil THEN Nil
    ELSE LET row == Val(sessions[u]) IN
         Some([state |-> row.state, show_id |-> row.show_id,
               seats |-> IF row.seats # Nil /\ Len(Val(row.seats)) > 0
                         THEN Some(SplitSeats(Val(row.seats))) ELSE Nil,
               total |-> row.total])

\* a faulty test that only asks for a session row
NoSession(st) == st = Nil

\* !state || state.state !== "waiting_receipt" || !state.show_id || !state.seats || !state.total
NotAwaitingReceipt(st) ==
    \/ st = Nil
    \/ Val(st).state # "waiting_receipt"
    \/ Val(st).show_id = Nil \/ Val(Val(st).show_id) = 0
    \/ Val(st).seats = Nil
    \/ Val(st).total = Nil \/ Val(Val(st).total) = 0

\* read the session; return unless it awaits a receipt and the message carries one
MessageGet(p) ==
    /\ At(p, "m_get")
    /\ LET st == GetUserState(op[p].user) IN
       IF NotAwaitingReceipt(st)
       THEN Finish(p, Returned("ignored"))
       ELSE IF op[p].receipt = NULL
       THEN Finish(p, Returned("no-receipt"))
       ELSE /\ loc' = [loc EXCEPT ![p].show = Val(st).show_id,
                                  ![p].seats = Val(st).seats,
                                  ![p].total = Val(st).total]
            /\ pc' = [pc EXCEPT ![p] = "m_create"]
            /\ UNCHANGED ret
    /\ UNCHANGED <<impl, now, shows, seat, orders, sessions, op, wr, lk>>

\* a faulty insert that stores the order as approved
PaidOrder(userId, showId, seats, amount, receiptType) ==
    [user_id |-> userId, show_id |-> showId, seats |-> Join(seats), amount |-> amount,
     receipt_type |-> receiptType, status |-> "approved", paid_at |-> Nil, admin_id |-> NULL]

\* createOrder(params): the inserted row (status defaults to pending)
NewOrder(userId, showId, seats, amount, receiptType) ==
    [user_id |-> userId, show_id |-> showId, seats |-> Join(seats), amount |-> amount,
     receipt_type |-> receiptType, status |-> "pending", paid_at |-> Nil, admin_id |-> NULL]

\* const orderId = await createOrder(...), then the reply and the
\* notifications to the admins, which may throw
MessageCreate(p) ==
    /\ At(p, "m_create")
    /\ Len(orders) < MaxOrders
    /\ orders' = Append(orders, NewOrder(op[p].user, Val(loc[p].show), Val(loc[p].seats),
                                         Val(loc[p].total), op[p].receipt))
    /\ loc' = [loc EXCEPT ![p].id = Some(Len(orders) + 1)]
    /\ \/ /\ pc' = [pc EXCEPT ![p] = "m_clear"]
          /\ UNCHANGED ret
       \/ /\ pc' = [pc EXCEPT ![p] = "done"]
          /\ ret' = [ret EXCEPT ![p] = Thrown]
    /\ UNCHANGED <<impl, now, shows, seat, sessions, op, wr, lk>>

\* clearUserState(userId)
MessageClear(p) ==
    /\ At(p, "m_clear")
    /\ ~Locked(SessionRow(op[p].user))
    /\ sessions' = [sessions EXCEPT ![op[p].user] = Nil]
    /\ Finish(p, Returned("order-created"))
    /\ UNCHANGED <<impl, now, shows, seat, orders, op, wr, lk>>

\* ------------------------------------------------------------------ specification

\* after ensureSchema: one show, its seats seeded, no orders, no sessions
Init ==
    /\ impl \in Impls
    /\ now = 0
    /\ shows = [s \in ShowIds |-> [rows |-> SeedRows, cols |-> SeedCols, price |-> SeedPrice]]
    /\ seat = [k \in SeatKeys |-> FreshSeat]
    /\ orders = <<>>
    /\ sessions = [u \in Users |-> Nil]
    /\ pc = [p \in Procs |-> "idle"]
    /\ op = [p \in Procs |-> NoOp]
    /\ loc = [p \in Procs |-> NoLoc]
    /\ wr = [p \in Procs |-> NoWrites]
    /\ lk = [p \in Procs |-> {}]
    /\ ret = [p \in Procs |-> NoRet]
    /\ hist = NoHist

\* the observer records nothing in this step
Keep == hist' = hist

\* toggles racing on the seat grid while time passes
NextToggle ==
    \/ \E p \in Procs : BeginToggle(p, SeatKeys) /\ Keep
    \/ \E p \in Procs : ToggleRelease(p) /\ Keep
    \/ \E p \in Procs : ToggleRead(p) /\ Keep
    \/ \E p \in Procs : ToggleWrite(p) /\ Keep
    \/ \E p \in Procs : Commit(p) /\ Keep
    \/ \E p \in Procs : Abort(p) /\ Keep
    \/ \E p \in Procs : Deliver(p) /\ Keep
    \/ SeatStatusMap /\ Keep
    \/ Tick /\ Keep

SpecToggle == Init /\ [][NextToggle]_vars

\* the first seat of the grid, and the slot of a run with one handler at a time
FirstSeat == {k \in SeatKeys : \A j \in SeatKeys : j = k \/ CodeLess(k[2], j[2])}

OneProc == {1}

\* the observer notes that the buyer's session is a new waiting-receipt session
NoteSession(p) ==
    hist' = [hist EXCEPT !.spent = @ \ {op[p].user}]

\* the observer notes that the buyer's session has given an order
NoteOrder(p) ==
    hist' = [hist EXCEPT !.spent = @ \cup {op[p].user}]

\* the whole purchase flow, one handler at a time, buyers competing for one seat
NextFlow ==
    \/ \E p \in OneProc : BeginToggle(p, FirstSeat) /\ Keep
    \/ \E p \in OneProc : ToggleRelease(p) /\ Keep
    \/ \E p \in OneProc : ToggleRead(p) /\ Keep
    \/ \E p \in OneProc : ToggleWrite(p) /\ Keep
    \/ \E p \in OneProc : BeginConfirm(p) /\ Keep
    \/ \E p \in OneProc : ConfirmHeld(p) /\ Keep
    \/ \E p \in OneProc : ConfirmShow(p) /\ Keep
    \/ \E p \in OneProc : ConfirmFreeze(p) /\ Keep
    \/ \E p \in OneProc : ConfirmState(p) /\ NoteSession(p)
    \/ \E p \in OneProc : BeginMessage(p) /\ Keep
    \/ \E p \in OneProc : MessageGet(p) /\ Keep
    \/ \E p \in OneProc : MessageCreate(p) /\ NoteOrder(p)
    \/ \E p \in OneProc : MessageClear(p) /\ Keep
    \/ \E p \in OneProc : BeginSettle(p) /\ Keep
    \/ \E p \in OneProc : SettleRead(p) /\ Keep
    \/ \E p \in OneProc : SettleSeats(p) /\ Keep
    \/ \E p \in OneProc : SettleOrder(p) /\ Keep
    \/ \E p \in OneProc : SettleSession(p) /\ Keep
    \/ \E p \in OneProc : Commit(p) /\ Keep
    \/ \E p \in OneProc : Abort(p) /\ Keep
    \/ \E p \in OneProc : Deliver(p) /\ Keep

SpecFlow == Init /\ [][NextFlow]_vars

\* the number of completed toggles the observer remembers
TrailMax == 4

\* what the observer notes when toggle p returns or fails: the caller, the
\* result, the seat row when the call was made, the row it left, the time
ToggleEntry(p) ==
    LET k == <<op[p].show, op[p].code>> IN
    [user |-> op[p].user,
     result |-> IF ret'[p].tag = "ok" THEN ret'[p].val ELSE "error",
     before |-> hist.seen, after |-> seat'[k], t |-> now]

\* what the observer notes when a seat map request releases the seat's hold
ReconcileEntry ==
    LET k == CHOOSE x \in FirstSeat : TRUE IN
    [user |-> NULL, result |-> "reconciled", before |-> seat[k], after |-> seat'[k], t |-> now]

\* the trail with one more entry, the oldest dropped beyond TrailMax
Appended(trail, e) ==
    IF Len(trail) < TrailMax THEN Append(trail, e) ELSE Append(Tail(trail), e)

\* the observer notes the toggle that ends in this step
NoteToggle(p) ==
    hist' = [hist EXCEPT !.trail = IF op[p].kind = "toggle"
                                   THEN Appended(@, ToggleEntry(p)) ELSE @]

\* the observer notes the seat row at the call of toggle p
NoteCall(p) ==
    hist' = [hist EXCEPT !.seen = seat[<<op'[p].show, op'[p].code>>]]

\* the observer notes a seat map request that changed the seat
NoteReconcile ==
    hist' = [hist EXCEPT !.trail = IF seat' # seat THEN Appended(@, ReconcileEntry) ELSE @]

\* buyers toggling one seat, one call at a time, while time passes
NextSeq ==
    \/ \E p \in OneProc : BeginToggle(p, FirstSeat) /\ NoteCall(p)
    \/ \E p \in OneProc : ToggleRelease(p) /\ Keep
    \/ \E p \in OneProc : ToggleRead(p) /\ Keep
    \/ \E p \in OneProc : ToggleWrite(p) /\ Keep
    \/ \E p \in OneProc : Commit(p) /\ NoteToggle(p)
    \/ \E p \in OneProc : Abort(p) /\ NoteToggle(p)
    \/ \E p \in OneProc : Deliver(p) /\ Keep
    \/ SeatStatusMap /\ NoteReconcile
    \/ Tick /\ Keep

SpecSeq == Init /\ [][NextSeq]_vars

\* the observer notes the seats whose hold has run out when the clock advances
NoteLapse ==
    hist' = [hist EXCEPT !.lapsed = @ \cup {k \in SeatKeys : Expired(seat[k], now')}]

\* a seat written by the transaction that commits counts as lapsed no longer
NoteWritten(p) ==
    hist' = [hist EXCEPT !.lapsed = @ \ DOMAIN wr[p].seat]

\* a seat map request has dealt with every lapsed hold
NoteMapped ==
    hist' = [hist EXCEPT !.lapsed = {}]

\* buyers toggling one seat and confirming while holds run out
NextHold ==
    \/ \E p \in Procs : BeginToggle(p, FirstSeat) /\ Keep
    \/ \E p \in Procs : ToggleRelease(p) /\ Keep
    \/ \E p \in Procs : ToggleRead(p) /\ Keep
    \/ \E p \in Procs : ToggleWrite(p) /\ Keep
    \/ \E p \in Procs : BeginConfirm(p) /\ Keep
    \/ \E p \in Procs : ConfirmHeld(p) /\ Keep
    \/ \E p \in Procs : ConfirmShow(p) /\ Keep
    \/ \E p \in Procs : ConfirmFreeze(p) /\ Keep
    \/ \E p \in Procs : ConfirmState(p) /\ Keep
    \/ \E p \in Procs : Commit(p) /\ NoteWritten(p)
    \/ \E p \in Procs : Abort(p) /\ Keep
    \/ \E p \in Procs : Deliver(p) /\ Keep
    \/ SeatStatusMap /\ NoteMapped
    \/ Tick /\ NoteLapse

SpecHold == Init /\ [][NextHold]_vars

\* a handler that was called runs its next statement and returns
Progress ==
    \E p \in OneProc :
        \/ ToggleRelease(p) /\ Keep
        \/ ToggleRead(p) /\ Keep
        \/ ToggleWrite(p) /\ Keep
        \/ ConfirmHeld(p) /\ Keep
        \/ ConfirmShow(p) /\ Keep
        \/ ConfirmFreeze(p) /\ Keep
        \/ ConfirmState(p) /\ Keep
        \/ Commit(p) /\ Keep
        \/ Deliver(p) /\ Keep

\* buyers who toggle and confirm but send no receipt
NextLive ==
    \/ \E p \in OneProc : BeginToggle(p, FirstSeat) /\ Keep
    \/ \E p \in OneProc : BeginConfirm(p) /\ Keep
    \/ Progress
    \/ SeatStatusMap /\ Keep
    \/ Tick /\ Keep

\* every called handler finishes, seat map requests keep coming, time passes
SpecLive ==
    /\ Init
    /\ [][NextLive]_vars
    /\ WF_vars(Progress)
    /\ WF_vars(SeatStatusMap /\ Keep)
    /\ WF_vars(Tick /\ Keep)

\* the shows once the dashboard's show form has added a second one with the
\* same grid
GridShows == {1, 2}

GridKeys == {<<s, c>> : s \in GridShows, c \in SeedCodes(SeedRows, SeedCols)}

\* the first seat of every show
GridFirst == {k \in GridKeys : \A j \in GridKeys : (j[1] = k[1]) => (j = k \/ CodeLess(k[2], j[2]))}

\* two shows; u2 bought the last seat of show 2 (order 1, approved from the
\* dashboard) and then held and confirmed the last seat of show 1
InitGrid ==
    /\ impl \in Impls
    /\ now = 0
    /\ shows = [s \in GridShows |-> [rows |-> SeedRows, cols |-> SeedCols, price |-> SeedPrice]]
    /\ \E last \in SeedCodes(SeedRows, SeedCols) :
         /\ \A c \in SeedCodes(SeedRows, SeedCols) : c = last \/ CodeLess(c, last)
         /\ seat = [k \in GridKeys |->
                      IF k \in GridFirst THEN FreshSeat
                      ELSE IF k = <<2, last>>
                      THEN [FreshSeat EXCEPT !.status = "sold", !.buyer_id = "u2"]
                      ELSE IF k = <<1, last>>
                      THEN [FreshSeat EXCEPT !.status = "held", !.held_by = "u2"]
                      ELSE FreshSeat]
         /\ orders = <<SettledOrder(NewOrder("u2", 2, <<last>>, SeedPrice, "text"),
                                    "approve", "admin-dashboard", 0)>>
         /\ sessions = [u \in Users |->
                          IF u = "u2"
                          THEN Some(SessionRowOf("waiting_receipt", Some(1),
                                                 Some(<<last>>), Some(SeedPrice)))
                          ELSE Nil]
    /\ pc = [p \in Procs |-> "idle"]
    /\ op = [p \in Procs |-> NoOp]
    /\ loc = [p \in Procs |-> NoLoc]
    /\ wr = [p \in Procs |-> NoWrites]
    /\ lk = [p \in Procs |-> {}]
    /\ ret = [p \in Procs |-> NoRet]
    /\ hist = NoHist

\* the observer notes a statement on the seat table and the table before it
NoteLast(kind, s, u) ==
    hist' = [hist EXCEPT !.last = Some([kind |-> kind, show |-> s, user |-> u,
                                        was |-> seat, t |-> now])]

\* buyers toggling the first seat of either show, one call at a time, while
\* holds run out and seat maps are requested
NextGrid ==
    \/ \E p \in OneProc : BeginToggle(p, GridFirst) /\ Keep
    \/ \E p \in OneProc : ToggleRelease(p) /\ Keep
    \/ \E p \in OneProc : ToggleRead(p) /\ Keep
    \/ \E p \in OneProc : ToggleWrite(p) /\ Keep
    \/ \E p \in OneProc : Commit(p) /\ Keep
    \/ \E p \in OneProc : Abort(p) /\ Keep
    \/ \E p \in OneProc : Deliver(p) /\ Keep
    \/ \E s \in GridShows : SeatStatusMapOf(s) /\ NoteLast("reconcile", s, NULL)
    \/ Tick /\ Keep

SpecGrid == InitGrid /\ [][NextGrid]_vars

\* buyers toggling the seats of two shows and confirming, one call at a time
NextFreeze ==
    \/ \E p \in OneProc : BeginToggle(p, GridKeys) /\ Keep
    \/ \E p \in OneProc : ToggleRelease(p) /\ Keep
    \/ \E p \in OneProc : ToggleRead(p) /\ Keep
    \/ \E p \in OneProc : ToggleWrite(p) /\ Keep
    \/ \E p \in OneProc : BeginConfirm(p) /\ Keep
    \/ \E p \in OneProc : ConfirmHeld(p) /\ Keep
    \/ \E p \in OneProc : ConfirmShow(p) /\ Keep
    \/ \E p \in OneProc : ConfirmFreeze(p) /\ Keep
    \/ \E p \in OneProc : ConfirmState(p) /\ Keep
    \/ \E p \in OneProc : Commit(p) /\ Keep
    \/ \E p \in OneProc : Abort(p) /\ Keep
    \/ \E p \in OneProc : Deliver(p) /\ Keep

SpecFreeze == InitGrid /\ [][NextFreeze]_vars

\* the seat handler slot p toggles when every slot has a seat of its own
OwnSeat(p) == {<<s, SortCodes(SeedCodes(SeedRows, SeedCols))[p]>> : s \in ShowIds}

\* concurrent toggles, each on a different seat, while time passes
NextPair ==
    \/ \E p \in Procs : BeginToggle(p, OwnSeat(p)) /\ Keep
    \/ \E p \in Procs : ToggleRelease(p) /\ Keep
    \/ \E p \in Procs : ToggleRead(p) /\ Keep
    \/ \E p \in Procs : ToggleWrite(p) /\ Keep
    \/ \E p \in Procs : Commit(p) /\ Keep
    \/ \E p \in Procs : Abort(p) /\ Keep
    \/ \E p \in Procs : Deliver(p) /\ Keep
    \/ Tick /\ Keep

SpecPair == Init /\ [][NextPair]_vars

\* the conversation of the buyers with the bot, one update at a time
NextChat ==
    \/ \E p \in OneProc : BeginBuy(p) /\ Keep
    \/ \E p \in OneProc : BuyList(p) /\ Keep
    \/ \E p \in OneProc : BuyState(p) /\ Keep
    \/ \E p \in OneProc : BeginShow(p) /\ Keep
    \/ \E p \in OneProc : PickShow(p) /\ Keep
    \/ \E p \in OneProc : PickMap(p) /\ Keep
    \/ \E p \in OneProc : PickState(p) /\ Keep
    \/ \E p \in OneProc : BeginToggle(p, FirstSeat) /\ Keep
    \/ \E p \in OneProc : ToggleRelease(p) /\ Keep
    \/ \E p \in OneProc : ToggleRead(p) /\ Keep
    \/ \E p \in OneProc : ToggleWrite(p) /\ Keep
    \/ \E p \in OneProc : Commit(p) /\ Keep
    \/ \E p \in OneProc : Abort(p) /\ Keep
    \/ \E p \in OneProc : BeginConfirm(p) /\ Keep
    \/ \E p \in OneProc : ConfirmHeld(p) /\ Keep
    \/ \E p \in OneProc : ConfirmShow(p) /\ Keep
    \/ \E p \in OneProc : ConfirmFreeze(p) /\ Keep
    \/ \E p \in OneProc : ConfirmState(p) /\ Keep
    \/ \E p \in OneProc : BeginMessage(p) /\ Keep
    \/ \E p \in OneProc : MessageGet(p) /\ Keep
    \/ \E p \in OneProc : MessageCreate(p) /\ Keep
    \/ \E p \in OneProc : MessageClear(p) /\ Keep
    \/ \E p \in OneProc : Deliver(p) /\ Keep

SpecChat == Init /\ [][NextChat]_vars

\* two shows with the seeded grid and nothing held or ordered yet
InitTwo ==
    /\ impl \in Impls
    /\ now = 0
    /\ shows = [s \in GridShows |-> [rows |-> SeedRows, cols |-> SeedCols, price |-> SeedPrice]]
    /\ seat = [k \in GridKeys |-> FreshSeat]
    /\ orders = <<>>
    /\ sessions = [u \in Users |-> Nil]
    /\ pc = [p \in Procs |-> "idle"]
    /\ op = [p \in Procs |-> NoOp]
    /\ loc = [p \in Procs |-> NoLoc]
    /\ wr = [p \in Procs |-> NoWrites]
    /\ lk = [p \in Procs |-> {}]
    /\ ret = [p \in Procs |-> NoRet]
    /\ hist = NoHist

\* the request that starts in this step is one of the first buyer
OfFirstBuyer(p) == op'[p].user = "u1"

\* the receipt in this step is the first one of the run
FirstReceipt == Len(orders) = 0

\* the observer notes the unit price the confirm of a buyer reads
NoteQuote(p) ==
    hist' = [hist EXCEPT !.quote[op[p].user] = shows[op[p].show].price]

\* the observer notes the quote behind the order that is created, and the
\* seat list createOrder is called with
NotePriced(p) ==
    hist' = [hist EXCEPT !.priced = Append(@, hist.quote[op[p].user]),
                         !.listed = Append(@, Val(loc[p].seats))]

\* one buyer going through the purchase of the seats of show 1, one request
\* at a time, up to the first order, while operators settle it and change
\* the prices
NextDesk ==
    \/ \E p \in OneProc : BeginToggle(p, SeatKeys) /\ OfFirstBuyer(p) /\ Keep
    \/ \E p \in OneProc : ToggleRelease(p) /\ Keep
    \/ \E p \in OneProc : ToggleRead(p) /\ Keep
    \/ \E p \in OneProc : ToggleWrite(p) /\ Keep
    \/ \E p \in OneProc : BeginConfirm(p) /\ OfFirstBuyer(p) /\ Keep
    \/ \E p \in OneProc : ConfirmHeld(p) /\ Keep
    \/ \E p \in OneProc : ConfirmShow(p) /\ NoteQuote(p)
    \/ \E p \in OneProc : ConfirmFreeze(p) /\ Keep
    \/ \E p \in OneProc : ConfirmState(p) /\ Keep
    \/ \E p \in OneProc : BeginMessage(p) /\ OfFirstBuyer(p) /\ Keep
    \/ \E p \in OneProc : MessageGet(p) /\ Keep
    \/ \E p \in OneProc : MessageCreate(p) /\ FirstReceipt /\ NotePriced(p)
    \/ \E p \in OneProc : MessageClear(p) /\ Keep
    \/ \E p \in OneProc : BeginSettle(p) /\ Keep
    \/ \E p \in OneProc : SettleRead(p) /\ Keep
    \/ \E p \in OneProc : SettleSeats(p) /\ Keep
    \/ \E p \in OneProc : SettleOrder(p) /\ Keep
    \/ \E p \in OneProc : SettleSession(p) /\ Keep
    \/ \E p \in OneProc : Commit(p) /\ Keep
    \/ \E p \in OneProc : Abort(p) /\ Keep
    \/ \E p \in OneProc : Deliver(p) /\ Keep
    \/ \E s \in GridShows, v \in SeedPrice..MaxPrice : UpdateShowSettingsAction(s, v) /\ Keep

SpecDesk == InitTwo /\ [][NextDesk]_vars

\* operators, and visitors without a session, submitting the show forms of
\* the dashboard
NextShows ==
    \/ \E p \in OneProc : BeginCreateShow(p) /\ Keep
    \/ \E p \in OneProc : CreateShow(p) /\ Keep
    \/ \E p \in OneProc : SeedSeats(p) /\ Keep
    \/ \E p \in OneProc : BeginSettings(p) /\ Keep
    \/ \E p \in OneProc : SubmitSettings(p) /\ Keep
    \/ \E p \in OneProc : Deliver(p) /\ Keep

SpecShows == Init /\ [][NextShows]_vars

\* after u2 bought a seat of show 2 and confirmed a seat of show 1: buyers
\* toggle the first seat of show 1 and confirm, receipts come in, orders are
\* settled, holds run out and seat maps are requested, one request at a time
NextRows ==
    \/ \E p \in OneProc : BeginToggle(p, FirstSeat) /\ Keep
    \/ \E p \in OneProc : ToggleRelease(p) /\ Keep
    \/ \E p \in OneProc : ToggleRead(p) /\ Keep
    \/ \E p \in OneProc : ToggleWrite(p) /\ Keep
    \/ \E p \in OneProc : BeginConfirm(p) /\ Keep
    \/ \E p \in OneProc : ConfirmHeld(p) /\ Keep
    \/ \E p \in OneProc : ConfirmShow(p) /\ Keep
    \/ \E p \in OneProc : ConfirmFreeze(p) /\ Keep
    \/ \E p \in OneProc : ConfirmState(p) /\ Keep
    \/ \E p \in OneProc : BeginMessage(p) /\ Keep
    \/ \E p \in OneProc : MessageGet(p) /\ Keep
    \/ \E p \in OneProc : MessageCreate(p) /\ Keep
    \/ \E p \in OneProc : MessageClear(p) /\ Keep
    \/ \E p \in OneProc : BeginSettle(p) /\ Keep
    \/ \E p \in OneProc : SettleRead(p) /\ Keep
    \/ \E p \in OneProc : SettleSeats(p) /\ Keep
    \/ \E p \in OneProc : SettleOrder(p) /\ Keep
    \/ \E p \in OneProc : SettleSession(p) /\ Keep
    \/ \E p \in OneProc : Commit(p) /\ Keep
    \/ \E p \in OneProc : Abort(p) /\ Keep
    \/ \E p \in OneProc : Deliver(p) /\ Keep
    \/ \E s \in GridShows : SeatStatusMapOf(s) /\ Keep
    \/ Tick /\ Keep

SpecRows == InitGrid /\ [][NextRows]_vars

\* the state after Buyer held every seat of the show, confirmed and sent a
\* receipt: the holds are frozen, order 1 is pending, and the session is
\* cleared, or still there when a notification failed before clearUserState
InitSettle ==
    /\ impl \in Impls
    /\ now = 0
    /\ shows = [s \in ShowIds |-> [rows |-> SeedRows, cols |-> SeedCols, price |-> SeedPrice]]
    /\ \E s \in ShowIds :
         LET codes == SortCodes({k[2] : k \in {x \in SeatKeys : x[1] = s}})
             total == shows[s].price * Len(codes)
         IN /\ seat = [k \in SeatKeys |->
                         IF k[1] = s
                         THEN [FreshSeat EXCEPT !.status = "held", !.held_by = "u1"]
                         ELSE FreshSeat]
            /\ orders = <<NewOrder("u1", s, codes, total, "text")>>
            /\ sessions \in {[u \in Users |-> Nil],
                             [u \in Users |->
                                 IF u = "u1"
                                 THEN Some(SessionRowOf("waiting_receipt", Some(s),
                                                        Some(codes), Some(total)))
                                 ELSE Nil]}
    /\ pc = [p \in Procs |-> "idle"]
    /\ op = [p \in Procs |-> NoOp]
    /\ loc = [p \in Procs |-> NoLoc]
    /\ wr = [p \in Procs |-> NoWrites]
    /\ lk = [p \in Procs |-> {}]
    /\ ret = [p \in Procs |-> NoRet]
    /\ hist = NoHist

\* a seat code of no seat: the last row letter, a column beyond the grid
NoSuchSeat == {<<s, SeatCode(Alphabet[26], SeedCols + 1)>> : s \in ShowIds}

\* operators settling the pending order, or an order that does not exist,
\* while buyers keep toggling its seats, or a seat that does not exist
NextSettle ==
    \/ \E p \in Procs : BeginToggle(p, SeatKeys \cup NoSuchSeat) /\ Keep
    \/ \E p \in Procs : ToggleRelease(p) /\ Keep
    \/ \E p \in Procs : ToggleRead(p) /\ Keep
    \/ \E p \in Procs : ToggleWrite(p) /\ Keep
    \/ \E p \in Procs : BeginSettle(p) /\ Keep
    \/ \E p \in Procs : SettleRead(p) /\ Keep
    \/ \E p \in Procs : SettleSeats(p) /\ Keep
    \/ \E p \in Procs : SettleOrder(p) /\ Keep
    \/ \E p \in Procs : SettleSession(p) /\ Keep
    \/ \E p \in Procs : Commit(p) /\ Keep
    \/ \E p \in Procs : Abort(p) /\ Keep
    \/ \E p \in Procs : Deliver(p) /\ Keep

SpecSettle == InitSettle /\ [][NextSettle]_vars

\* the pending order settled through the bot's callbacks and the dashboard's
\* actions, by whoever sends the request, while sessions age
NextAuth ==
    \/ \E p \in OneProc : BeginCallback(p) /\ Keep
    \/ \E p \in OneProc : CallbackFrom(p) /\ Keep
    \/ \E p \in OneProc : BeginOrderAction(p) /\ Keep
    \/ \E p \in OneProc : OrderActionSession(p) /\ Keep
    \/ \E p \in OneProc : SettleRead(p) /\ Keep
    \/ \E p \in OneProc : SettleSeats(p) /\ Keep
    \/ \E p \in OneProc : SettleOrder(p) /\ Keep
    \/ \E p \in OneProc : SettleSession(p) /\ Keep
    \/ \E p \in OneProc : Commit(p) /\ Keep
    \/ \E p \in OneProc : Abort(p) /\ Keep
    \/ \E p \in OneProc : Deliver(p) /\ Keep
    \/ Tick /\ Keep

SpecAuth == InitSettle /\ [][NextAuth]_vars

\* ------------------------------------------------------------------ properties

SettleKinds == {"approve", "reject"}

\* the seat rows an order lists
OrderKeys(id) ==
    {k \in DOMAIN seat : k[1] = Val(GetOrder(id)).show_id
                      /\ k[2] \in SeqToSet(Val(GetOrder(id)).seats)}

\* this step is the COMMIT of transaction p
Commits(p) == pc[p] = "commit" /\ pc'[p] = "done" /\ ret'[p].tag = "ok"

\* this step commits a settlement that went past the pending check
Settles(p, kind) == op[p].kind = kind /\ Commits(p) /\ op[p].order \in DOMAIN wr[p].orders

\* C1: no seat is sold twice: for every (show, seat code) at most one approved
\* order lists that seat
C1_NoSeatSoldTwice ==
    \A k \in SeatKeys :
        Cardinality({i \in 1..Len(orders) :
                        orders[i].status = "approved" /\ k \in OrderKeys(i)}) <= 1

\* C2: every seat is available with no holder and no buyer, or held with a
\* holder and no buyer, or sold with a buyer and no holder
C2_SeatShape ==
    \A k \in SeatKeys :
        \/ seat[k].status = "available" /\ seat[k].held_by = NULL /\ seat[k].buyer_id = NULL
        \/ seat[k].status = "held" /\ seat[k].held_by # NULL /\ seat[k].buyer_id = NULL
        \/ seat[k].status = "sold" /\ seat[k].held_by = NULL /\ seat[k].buyer_id # NULL

\* C3: of two toggles by different users running concurrently on the same
\* available seat, the one still running when the other has returned held
\* returns held-by-other or sold (or fails), never held as well
C3_OneToggleWins ==
    \A q \in Procs :
        (pc[q] = "done" /\ op[q].kind = "toggle" /\ op[q].avail /\ op[q].rival
            /\ op[q].t0 = now /\ ret[q].tag = "ok")
        => ret[q].val \in {"held-by-other", "sold"}

\* C4: an order's status changes once: an approved or rejected order keeps
\* its status in every later step
C4_StatusChangesOnce ==
    [][\A i \in 1..Len(orders) :
          orders[i].status # "pending" => orders'[i].status = orders[i].status]_vars

\* C5: of several approve / reject calls on one order only the first mutates:
\* a settlement commits seat, order and session writes only while the
\* committed order is still pending
C5_OnlyFirstSettles ==
    [][\A p \in Procs :
          (op[p].kind \in SettleKinds /\ Commits(p) /\ wr[p] # NoWrites)
          => orders[op[p].order].status = "pending"]_vars

\* C6: every seat listed by an approved order is sold to that order's user
C6_ApprovedSeatsSold ==
    \A i \in 1..Len(orders) :
        orders[i].status = "approved"
        => \A k \in OrderKeys(i) :
              seat[k].status = "sold" /\ seat[k].buyer_id = orders[i].user_id

\* C7: when approve commits on an order it found pending, every seat of the
\* order's list is sold to the order's user with holder and expiry cleared,
\* and the order is approved
C7_ApproveCommit ==
    [][\A p \in Procs :
          Settles(p, "approve")
          => /\ orders'[op[p].order].status = "approved"
             /\ \A k \in OrderKeys(op[p].order) :
                   seat'[k] = [status |-> "sold", held_by |-> NULL, hold_until |-> Nil,
                               buyer_id |-> orders[op[p].order].user_id]]_vars

\* C7 witness: an approve has returned the approved order and both of its
\* seats are sold to the buyer
C7_Witness ==
    \E p \in Procs :
        /\ pc[p] = "done" /\ op[p].kind = "approve" /\ ret[p].tag = "ok"
        /\ ret[p].val # Nil /\ Val(ret[p].val).status = "approved"
        /\ Len(Val(ret[p].val).seats) = 2
        /\ \A k \in OrderKeys(op[p].order) : seat[k].status = "sold" /\ seat[k].buyer_id = "u1"

\* C8: when reject commits on an order it found pending, every seat of the
\* order's list is available with holder, expiry and buyer cleared, and the
\* order is rejected
C8_RejectCommit ==
    [][\A p \in Procs :
          Settles(p, "reject")
          => /\ orders'[op[p].order].status = "rejected"
             /\ \A k \in OrderKeys(op[p].order) : seat'[k] = FreshSeat]_vars

\* C9: an approve or reject that finds its order not pending returns the
\* order with the terminal status it found and changes no seat, order or
\* session row
C9_SettledIsNoOp ==
    [][\A p \in Procs :
          (op[p].kind \in SettleKinds /\ Commits(p)
              /\ loc[p].order # Nil /\ Val(loc[p].order).status # "pending")
          => /\ ret'[p].val = Some([Val(GetOrder(op[p].order)) EXCEPT
                                       !.status = Val(loc[p].order).status])
             /\ Val(loc[p].order).status \in {"approved", "rejected"}
             /\ wr[p] = NoWrites
             /\ seat' = seat /\ orders' = orders /\ sessions' = sessions]_vars

\* C9 witness: a reject issued after an approve has returned the order as approved
C9_Witness ==
    \E p \in Procs :
        /\ pc[p] = "done" /\ op[p].kind = "reject" /\ ret[p].tag = "ok"
        /\ ret[p].val # Nil /\ Val(ret[p].val).status = "approved"
        /\ orders[op[p].order].status = "approved"

\* C10: settlement is all or nothing: a settlement changes no committed seat,
\* order or session row in any step but its COMMIT, and a failed settlement
\* leaves the committed rows as they are
C10_AllOrNothing ==
    [][\A p \in Procs :
          (op[p].kind \in SettleKinds /\ pc[p] \in TxPcs /\ pc'[p] # pc[p] /\ ~Commits(p))
          => (seat' = seat /\ orders' = orders /\ sessions' = sessions)]_vars

\* C10 witness: an approve failed after its seat, order and session statements;
\* the order is pending, its seats are still held and the session still exists
C10_Witness ==
    \E p \in Procs :
        /\ pc[p] = "done" /\ op[p].kind = "approve" /\ ret[p].tag = "error"
        /\ op[p].order \in 1..Len(orders)
        /\ loc[p].result.tag = "ok" /\ loc[p].result.val # Nil
        /\ Val(loc[p].result.val).status = "approved"
        /\ orders[op[p].order].status = "pending"
        /\ \A k \in OrderKeys(op[p].order) : seat[k].status = "held"
        /\ sessions[orders[op[p].order].user_id] # Nil

\* C11: when a buyer toggles an available seat and then toggles it again
\* with no other toggle in between, the first call returns held and, if the
\* hold has not run out by the second call, the second returns available
\* and leaves the seat row as it was before the first
C11_ToggleRoundTrip ==
    \A i \in 1..(Len(hist.trail) - 1) :
        LET e == hist.trail[i]
            f == hist.trail[i + 1]
        IN (e.user = f.user /\ e.before.status = "available"
               /\ e.result # "error" /\ f.result # "error")
           => /\ e.result = "held"
              /\ f.t <= Val(e.after.hold_until)
                    => (f.result = "available" /\ f.after = e.before)

\* C11 witness: a buyer held an available seat and released it again
C11_Witness ==
    \E i \in 1..(Len(hist.trail) - 1) :
        /\ hist.trail[i].user = hist.trail[i + 1].user
        /\ hist.trail[i].before.status = "available" /\ hist.trail[i].result = "held"
        /\ hist.trail[i + 1].result = "available"
        /\ hist.trail[i + 1].after = hist.trail[i].before

\* the trail ends with four toggles by u, v, u, v on a seat that was available
HandOver(u, v) ==
    /\ Len(hist.trail) = TrailMax
    /\ u # v
    /\ hist.trail[1].user = u /\ hist.trail[2].user = v
    /\ hist.trail[3].user = u /\ hist.trail[4].user = v
    /\ hist.trail[1].before.status = "available"
    /\ \A i \in 1..4 : hist.trail[i].result # "error"

\* C12: U1 toggles an available seat and gets held; within the hold period
\* U2 toggles it and gets held-by-other with the seat unchanged, U1 toggles
\* again and gets available, then U2 toggles and gets held: the seat is
\* held by U2
C12_HandOver ==
    \A u, v \in Users :
        HandOver(u, v)
        => /\ hist.trail[1].result = "held"
           /\ hist.trail[3].t <= Val(hist.trail[1].after.hold_until)
                 => /\ hist.trail[2].result = "held-by-other"
                    /\ hist.trail[2].after = hist.trail[2].before
                    /\ hist.trail[3].result = "available"
                    /\ hist.trail[4].result = "held"
                    /\ hist.trail[4].after.status = "held"
                    /\ hist.trail[4].after.held_by = v

\* C12 witness: the hand-over happened and the seat is held by U2
C12_Witness ==
    /\ HandOver("u1", "u2")
    /\ hist.trail[2].result = "held-by-other" /\ hist.trail[3].result = "available"
    /\ hist.trail[4].result = "held"
    /\ \A k \in FirstSeat : seat[k].status = "held" /\ seat[k].held_by = "u2"

\* this step is the read of the seat row by toggle p
ReadsSeat(p) == op[p].kind = "toggle" /\ pc[p] = "t_read" /\ pc'[p] \in {"t_write", "commit"}

\* C13: a held seat whose expiry has passed is available after the next
\* seatStatusMap call, and the next toggle called on it finds it available
\* and acquires it, whatever ran in between
C13_LapsedHoldReleased ==
    [][/\ SeatStatusMap => \A k \in hist.lapsed : seat'[k].status = "available"
       /\ \A p \in Procs :
             (ReadsSeat(p) /\ op[p].t0 = now /\ <<op[p].show, op[p].code>> \in hist.lapsed)
             => loc'[p].result = Returned("held")]_vars

\* a hold that is frozen: status held with no expiry
Frozen(row) == row.status = "held" /\ row.hold_until = Nil

\* C15: a frozen hold of a buyer changes only in the commit of a toggle by
\* that buyer or of an approve / reject that wrote the seat
C15_FrozenHoldKept ==
    [][\A k \in SeatKeys :
          (Frozen(seat[k]) /\ seat'[k] # seat[k])
          => \E p \in Procs :
                /\ Commits(p)
                /\ k \in DOMAIN wr[p].seat
                /\ \/ op[p].kind \in SettleKinds
                   \/ op[p].kind = "toggle" /\ op[p].user = seat[k].held_by]_vars

\* C14: no hold is held forever: a held seat, frozen or with an expiry the
\* clock of the run can pass, eventually becomes available or sold
C14_NoHoldForever ==
    \A k \in FirstSeat :
        (seat[k].status = "held"
            /\ (seat[k].hold_until = Nil \/ Val(seat[k].hold_until) < MaxTime))
        ~> (seat[k].status \in {"available", "sold"})

\* this step is the createOrder call of the receipt handler p
CreatesOrder(p) == op[p].kind = "message" /\ pc[p] = "m_create" /\ Len(orders') = Len(orders) + 1

\* C16: one order per waiting-receipt session: the receipt handler creates
\* an order only for a session that has not given an order yet
C16_OneOrderPerSession ==
    [][\A p \in Procs : CreatesOrder(p) => op[p].user \notin hist.spent]_vars

\* C17: when createOrder is called, every seat of the order is held by the
\* buyer with a frozen (null) expiry
C17_OrderedSeatsFrozen ==
    [][\A p \in Procs :
          CreatesOrder(p)
          => \A k \in SeatKeys :
                (k[1] = Val(loc[p].show) /\ k[2] \in SeqToSet(Val(loc[p].seats)))
                => (Frozen(seat[k]) /\ seat[k].held_by = op[p].user)]_vars

\* the seat belongs to somebody other than user: held by or sold to another
OwnedByOther(row, user) ==
    \/ row.status = "held" /\ row.held_by # NULL /\ row.held_by # user
    \/ row.status = "sold" /\ row.buyer_id # NULL /\ row.buyer_id # user

\* C18: a settlement changes no seat that, when it commits, is held by or
\* sold to a user other than the buyer of the order
C18_SeatRowsDecide ==
    [][\A p \in Procs :
          (op[p].kind \in SettleKinds /\ Commits(p) /\ op[p].order \in DOMAIN wr[p].orders)
          => \A k \in SeatKeys :
                OwnedByOther(seat[k], orders[op[p].order].user_id) => seat'[k] = seat[k]]_vars

\* the seat row toggle p is about
ToggleKey(p) == <<op[p].show, op[p].code>>

\* toggle p commits with the result it settled on after reading the seat
Answers(p, results) ==
    op[p].kind = "toggle" /\ Commits(p) /\ loc[p].result \in {Returned(r) : r \in results}

\* C19: a toggle that reads the seat as sold returns sold, one that reads it
\* as held by another user returns held-by-other, and in both cases the
\* commit leaves every seat, order, session and show row unchanged
C19_ConflictNoMutation ==
    [][\A p \in Procs :
          /\ ReadsSeat(p)
                => LET row == SeatView(p, ToggleKey(p)) IN
                   /\ row.status = "sold" => loc'[p].result = Returned("sold")
                   /\ (row.status = "held" /\ row.held_by \notin {NULL, op[p].user})
                         => loc'[p].result = Returned("held-by-other")
          /\ Answers(p, {"sold", "held-by-other"})
                => /\ ret'[p] = loc[p].result
                   /\ wr[p] = NoWrites
                   /\ db' = db]_vars

\* C19 witness: a toggle on a seat sold to another buyer has returned sold
C19_Witness ==
    \E p \in Procs :
        /\ pc[p] = "done" /\ op[p].kind = "toggle" /\ ret[p] = Returned("sold")
        /\ seat[ToggleKey(p)].status = "sold" /\ seat[ToggleKey(p)].buyer_id # op[p].user

\* C20: a toggle that finds the seat available, a hold that had run out
\* being released first, returns held and leaves the seat held by the caller
\* with expiry = t + HOLD_MINUTES, t a clock reading taken during the call
C20_AcquireAvailable ==
    [][\A p \in Procs :
          /\ (op[p].kind = "toggle" /\ pc[p] = "t_release" /\ pc'[p] = "t_read"
                  /\ Expired(SeatView(p, ToggleKey(p)), TxNow(p)))
                => wr'[p].seat[ToggleKey(p)] = Released(seat[ToggleKey(p)])
          /\ (ReadsSeat(p) /\ SeatView(p, ToggleKey(p)).status = "available")
                => loc'[p].result = Returned("held")
          /\ Answers(p, {"held"})
                => /\ ret'[p] = Returned("held")
                   /\ seat'[ToggleKey(p)].status = "held"
                   /\ seat'[ToggleKey(p)].held_by = op[p].user
                   /\ seat'[ToggleKey(p)].hold_until # Nil
                   /\ Val(seat'[ToggleKey(p)].hold_until) - HOLD_MINUTES \in op[p].t0..now
                   /\ seat'[ToggleKey(p)].buyer_id = seat[ToggleKey(p)].buyer_id]_vars

\* C20 witness: a toggle on a seat whose hold by another buyer had run out
\* has returned held and the seat is held by the caller
C20_Witness ==
    \E p \in Procs :
        /\ pc[p] = "done" /\ op[p].kind = "toggle" /\ ret[p] = Returned("held")
        /\ ~op[p].avail
        /\ seat[ToggleKey(p)].status = "held" /\ seat[ToggleKey(p)].held_by = op[p].user
        /\ seat[ToggleKey(p)].hold_until = Some(now + HOLD_MINUTES)

\* C21: reconcileExpired(showId) resets to available, holder and expiry
\* cleared, exactly the seats of that show that are held with an expiry
\* strictly before now; it changes no other seat (a hold ending now or later,
\* a frozen hold, a sold seat, a seat of another show); called again at the same
\* instant it changes nothing
C21_ReconcileExpired ==
    [][\A s \in DOMAIN shows :
          SeatStatusMapOf(s)
          => /\ \A k \in DOMAIN seat :
                   seat'[k] = IF /\ k[1] = s /\ seat[k].status = "held"
                                 /\ seat[k].hold_until # Nil /\ Val(seat[k].hold_until) < now
                              THEN [status |-> "available", held_by |-> NULL,
                                    hold_until |-> Nil, buyer_id |-> seat[k].buyer_id]
                              ELSE seat[k]
             /\ ReleaseExpiredHolds(s, now)' = seat']_vars

\* C21 witness: a seat map request for show 1 has just released the hold of
\* its first seat, which had run out, and has left alone a hold of show 2
\* that had run out as well, the frozen hold and the sold seat
C21_Witness ==
    /\ hist.last # Nil
    /\ Val(hist.last).kind = "reconcile" /\ Val(hist.last).show = 1 /\ Val(hist.last).t = now
    /\ \E k \in GridFirst : k[1] = 1 /\ Expired(Val(hist.last).was[k], now) /\ seat[k] = FreshSeat
    /\ \E k \in GridFirst : k[1] = 2 /\ Expired(seat[k], now) /\ seat[k] = Val(hist.last).was[k]
    /\ \E k \in GridKeys : Frozen(seat[k])
    /\ \E k \in GridKeys : seat[k].status = "sold"

\* this step is the freezeHeldSeats call of confirm handler p
Freezes(p) == op[p].kind = "confirm" /\ pc[p] = "c_freeze" /\ pc'[p] = "c_state"

\* C22: freeze(showId, userId) sets the expiry to null on every seat of that
\* show held by userId and changes nothing else: status and holder stay, and
\* seats held by others, available or sold seats and seats of other shows,
\* orders, sessions and shows are unchanged
C22_FreezeFrame ==
    [][\A p \in Procs :
          Freezes(p)
          => /\ \A k \in DOMAIN seat :
                   seat'[k] = IF /\ k[1] = op[p].show /\ seat[k].status = "held"
                                 /\ seat[k].held_by = op[p].user
                              THEN [status |-> "held", held_by |-> op[p].user,
                                    hold_until |-> Nil, buyer_id |-> seat[k].buyer_id]
                              ELSE seat[k]
             /\ orders' = orders /\ sessions' = sessions /\ shows' = shows]_vars

\* C22 witness: u1's first confirm has just frozen u1's seat of show 1 while
\* u1's hold in show 2 and u2's hold in show 1 keep their expiry
C22_Witness ==
    \E p \in Procs :
        /\ pc[p] = "c_state" /\ op[p].user = "u1" /\ op[p].show = 1 /\ sessions["u1"] = Nil
        /\ \E k \in DOMAIN seat : k[1] = 1 /\ Frozen(seat[k]) /\ seat[k].held_by = "u1"
        /\ \E k \in DOMAIN seat : k[1] = 2 /\ seat[k].status = "held" /\ seat[k].held_by = "u1"
                                    /\ seat[k].hold_until # Nil
        /\ \E k \in DOMAIN seat : k[1] = 1 /\ seat[k].status = "held" /\ seat[k].held_by = "u2"
                                    /\ seat[k].hold_until # Nil
        /\ \E k \in DOMAIN seat : seat[k].status = "sold"

\* this step is the createOrder statement of the receipt handler p
CallsCreateOrder(p) == op[p].kind = "message" /\ pc[p] = "m_create" /\ pc'[p] # "m_create"

\* C23: createOrder inserts one new order, pending, with the given user,
\* show, seat list and amount, returns its identifier, and leaves every seat
\* row, every session row and every existing order unchanged
C23_CreateOrderFrame ==
    [][\A p \in Procs :
          CallsCreateOrder(p)
          => /\ Len(orders') = Len(orders) + 1
             /\ \A i \in 1..Len(orders) : orders'[i] = orders[i]
             /\ loc'[p].id = Some(Len(orders'))
             /\ OrderRecord(Len(orders'), orders'[Len(orders')], orders'[Len(orders')].status)
                   = [id |-> Len(orders) + 1, user_id |-> op[p].user,
                      show_id |-> Val(loc[p].show), seats |-> Val(loc[p].seats),
                      amount |-> Val(loc[p].total), status |-> "pending"]
             /\ seat' = seat /\ sessions' = sessions /\ shows' = shows]_vars

\* C23 witness: createOrder has returned 2 to the receipt handler of a buyer
\* while the first order and a session of each buyer are there
C23_Witness ==
    \E p \in Procs :
        /\ pc[p] = "m_clear" /\ loc[p].id = Some(2) /\ Len(orders) = 2
        /\ orders[2].status = "pending" /\ orders[2].user_id = op[p].user
        /\ orders[1].user_id # op[p].user
        /\ \A u \in Users : sessions[u] # Nil
        /\ \E k \in SeatKeys : seat[k].status = "held"

C25_SettlementEndsSession ==
    [][\A p \in Procs, kind \in SettleKinds :
          Settles(p, kind)
          => LET buyer == orders[op[p].order].user_id IN
             /\ sessions'[buyer] = Nil
             /\ GetUserState(buyer)' = Nil
             /\ \A u \in Users \ {buyer} : sessions'[u] = sessions[u]]_vars

\* C25 witness: an approve has settled the order of a buyer who had confirmed
\* again since sending the receipt; that session is gone and the session of
\* the other buyer is still there
C25_Witness ==
    \E p \in Procs :
        /\ pc[p] = "done" /\ op[p].kind = "approve" /\ loc[p].seats # Nil
        /\ ret[p].tag = "ok" /\ ret[p].val # Nil /\ Val(ret[p].val).status = "approved"
        /\ Len(orders) = 1
        /\ sessions[Val(ret[p].val).user_id] = Nil
        /\ Val(ret[p].val).user_id \notin hist.spent
        /\ \E u \in Users : sessions[u] # Nil

\* this step is the setUserState statement of handler p
SetsState(p) == pc[p] \in {"b_state", "p_state", "c_state"} /\ pc'[p] = "done"

\* C26: set fully overwrites the session row of the user: whatever row was
\* there, get(userId) right after set(s) returns exactly s, also when the show,
\* the seats or the total of s is null; set and clear touch the row of no
\* other user; after clear(userId), get(userId) returns absence
C26_SessionOverwrite ==
    [][\A p \in Procs :
          /\ SetsState(p)
                => /\ GetUserState(op[p].user)' = Some(StateArg(p))
                   /\ \A u \in Users \ {op[p].user} : sessions'[u] = sessions[u]
          /\ (pc[p] = "m_clear" /\ pc'[p] = "done")
                => /\ GetUserState(op[p].user)' = Nil
                   /\ \A u \in Users \ {op[p].user} : sessions'[u] = sessions[u]]_vars

\* C27: the settlement time of an order is set if and only if the order is
\* approved, and an approved or rejected order carries its approver: a
\* pending or rejected order never has a settlement time
C27_PaidIffApproved ==
    \A i \in 1..Len(orders) :
        /\ orders[i].paid_at # Nil <=> orders[i].status = "approved"
        /\ orders[i].admin_id # NULL <=> orders[i].status \in {"approved", "rejected"}

\* handler p is an approve or reject of an order that does not exist, or a
\* toggle of a seat that does not exist
NotFound(p) ==
    \/ op[p].kind \in SettleKinds /\ op[p].order \notin 1..Len(orders)
    \/ op[p].kind = "toggle" /\ ToggleKey(p) \notin DOMAIN seat

\* C28: not-found outcomes mutate nothing: approve or reject of an order id
\* that does not exist returns null, toggle of a (show, seat code) that does
\* not exist fails with the seat-not-found error, and no step of either
\* writes or changes a seat, order, session or show row
C28_NotFoundNoMutation ==
    [][\A p \in Procs :
          (NotFound(p) /\ pc[p] # "done" /\ pc'[p] # pc[p])
          => /\ wr'[p] = NoWrites
             /\ db' = db
             /\ op[p].kind = "toggle"
                   => (pc'[p] \in {"t_read", "done"} /\ (pc'[p] = "done" => ret'[p] = Thrown))
             /\ op[p].kind \in SettleKinds
                   => /\ pc'[p] \in {"commit", "done"}
                      /\ pc'[p] = "commit" => loc'[p].result = Returned(Nil)
                      /\ Commits(p) => ret'[p] = Returned(Nil)]_vars

\* C28 witness: the toggle of a seat that does not exist has failed while
\* the approve of an order that does not exist is about to return null, and
\* the pending order and its held seats are as they were
C28_Witness ==
    /\ pc[1] = "done" /\ op[1].kind = "toggle" /\ ToggleKey(1) \in NoSuchSeat /\ ret[1] = Thrown
    /\ pc[2] = "commit" /\ op[2].kind = "approve" /\ op[2].order \notin 1..Len(orders)
    /\ loc[2].result = Returned(Nil)
    /\ orders[1].status = "pending"
    /\ \A k \in OrderKeys(1) : Frozen(seat[k])

\* C29: the amount of an order is the unit price of the show when the buyer
\* confirmed times the number of seat codes in the order's seat list, and it
\* stays that value after any later price update, toggle or settlement
C29_AmountFixed ==
    /\ Len(hist.priced) = Len(orders)
    /\ \A i \in 1..Len(orders) :
          orders[i].amount = hist.priced[i] * Len(SplitSeats(orders[i].seats))

\* C29 witness: an approved order of two seats carries twice the price read
\* at the confirm although the show has another price by now
C29_Witness ==
    /\ Len(orders) >= 1
    /\ orders[1].status = "approved"
    /\ Len(SplitSeats(orders[1].seats)) = 2
    /\ orders[1].amount = 2 * hist.priced[1]
    /\ shows[orders[1].show_id].price # hist.priced[1]

\* C30: updatePrice(showId, price) changes only the price field of that
\* show: every seat row, every order row, its amount included, every session
\* row and all other shows are unchanged
C30_PriceOnly ==
    [][/\ \A s \in DOMAIN shows, v \in SeedPrice..MaxPrice :
             UpdateShowSettingsAction(s, v) => shows'[s].price = v
       /\ shows' # shows
             => /\ DOMAIN shows' = DOMAIN shows
                /\ \E s \in DOMAIN shows :
                      \A t \in DOMAIN shows :
                          shows'[t] = IF t = s
                                      THEN [rows |-> shows[t].rows, cols |-> shows[t].cols,
                                            price |-> shows'[t].price]
                                      ELSE shows[t]
                /\ seat' = seat /\ orders' = orders /\ sessions' = sessions]_vars

\* C30 witness: the two shows have different prices, and the order, whose
\* amount is no longer what the price of its show gives, a session and a held
\* seat are there
C30_Witness ==
    /\ shows[1].price # shows[2].price
    /\ Len(orders) = 1
    /\ orders[1].amount # Total(shows[orders[1].show_id], SplitSeats(orders[1].seats))
    /\ sessions["u1"] # Nil
    /\ \E k \in DOMAIN seat : seat[k].status = "held"

\* the seat rows of a show
SeatsOf(showId) == {k \in DOMAIN seat : k[1] = showId}

\* createShowAction has returned in slot p
ShowCreated(p) == op[p].kind = "createShow" /\ pc[p] = "done" /\ ret[p] = Returned(NULL)

\* C31: when createShow returns, the new show has exactly rows x cols seat
\* rows, one per grid cell, coded row letter (A up to the row count) and
\* column number (1..cols), each available with no holder and no buyer
C31_SeedsWholeGrid ==
    \A p \in Procs :
        ShowCreated(p) =>
            LET id == Val(loc[p].show) IN
            /\ shows[id].rows >= 1 /\ shows[id].cols >= 1
            /\ Cardinality(SeatsOf(id)) = shows[id].rows * shows[id].cols
            /\ \A k \in SeatsOf(id) :
                 /\ \E r \in 1..26, c \in 1..shows[id].cols :
                      r <= shows[id].rows /\ k[2] = SeatCode(Alphabet[r], c)
                 /\ seat[k] = FreshSeat

\* a text that writes a number: a decimal integer with an optional minus sign
\* between optional white space
Numeral(text) ==
    \/ AllDigits(Trim(text))
    \/ Len(Trim(text)) > 1 /\ Head(Trim(text)) = "-" /\ AllDigits(Tail(Trim(text)))

NumeralValue(text) ==
    IF Head(Trim(text)) = "-" THEN 0 - DecimalValue(Tail(Trim(text)))
    ELSE DecimalValue(Trim(text))

\* a numeric field that is missing, not a number, not finite or below min
BadNumber(value, min) ==
    \/ value = Nil
    \/ ~Numeral(Val(value))
    \/ NumeralValue(Val(value)) < min

\* a createShow form with a bad numeric field, an empty title or a date that
\* does not parse
BadShowForm(f) ==
    \/ BadNumber(f.rows, 1) \/ BadNumber(f.cols, 1) \/ BadNumber(f.price, 0)
    \/ f.title = Nil \/ Len(Trim(Val(f.title))) = 0
    \/ f.startsAt = Nil \/ ~DateParses(Val(f.startsAt))

\* a price update form with a bad numeric field
BadSettingsForm(f) == BadNumber(f.showId, 1) \/ BadNumber(f.price, 0)

\* C32: show creation and price update reject a form with a missing,
\* non-numeric, non-finite or below-minimum numeric field, and show creation
\* one with an empty title or an unparseable date; the handler throws and no
\* show or seat row is created or changed
C32_RejectsBadForm ==
    [][\A p \in Procs :
        /\ (pc[p] = "n_show" /\ pc'[p] # pc[p] /\ BadShowForm(op[p].form))
               => (db' = db /\ pc'[p] = "done" /\ ret'[p] = Thrown)
        /\ (pc[p] = "v_update" /\ pc'[p] # pc[p] /\ BadSettingsForm(op[p].form))
               => (db' = db /\ pc'[p] = "done" /\ ret'[p] = Thrown)]_vars

\* approveOrder / rejectOrder has returned an order record in slot p
SettleAnswered(p) ==
    /\ op[p].kind \in SettleKinds /\ pc[p] = "done"
    /\ ret[p].tag = "ok" /\ ret[p].val # Nil

\* C33: the seat list of an order is the list createOrder was called with:
\* the stored text never changes, getOrder gives the same codes in the same
\* order, and so does the record approve / reject return, before and after
\* the settlement
C33_SeatListIntact ==
    /\ Len(hist.listed) = Len(orders)
    /\ \A i \in 1..Len(orders) :
          /\ orders[i].seats = Join(hist.listed[i])
          /\ Val(GetOrder(i)).seats = hist.listed[i]
    /\ \A p \in Procs :
          SettleAnswered(p) => Val(ret[p].val).seats = hist.listed[op[p].order]

\* C33 witness: a settled order of two seats was read back by a further
\* approve or reject, which returned its two codes
C33_Witness ==
    \E p \in Procs :
        /\ SettleAnswered(p)
        /\ orders[op[p].order].status \in {"approved", "rejected"}
        /\ Val(ret[p].val).status = orders[op[p].order].status
        /\ Len(hist.listed[op[p].order]) = 2
        /\ Val(ret[p].val).seats = hist.listed[op[p].order]

\* C34: while an order is pending, every seat of its seat list is held by
\* the buyer of the order: no operation, a toggle of the buyer on the frozen
\* seat included, makes it available, held by another user, or sold
C34_PendingSeatsStayHeld ==
    \A i \in 1..Len(orders) :
        orders[i].status = "pending"
            => \A k \in OrderKeys(i) :
                  seat[k].status = "held" /\ seat[k].held_by = orders[i].user_id

\* who may settle an order: the dashboard and the chats of ADMINS
Operators == {"admin-dashboard"} \cup ADMINS

\* the request in slot p carries an admin session that is signed with the
\* password and has not run out
ValidSession(p) ==
    /\ op[p].cookie # Nil
    /\ Val(op[p].cookie).key = "ADMIN_PASSWORD"
    /\ now - Val(op[p].cookie).issuedAt < SessionTtl

\* C35: every call of approveOrder or rejectOrder comes from a dashboard
\* action with a valid admin session or from a callback whose sender is one
\* of ADMINS, and no order is ever settled by anyone else
C35_OnlyOperatorsSettle ==
    [][/\ \A p \in Procs :
             (pc[p] # "s_read" /\ pc'[p] = "s_read")
                 => \/ pc[p] = "a_session" /\ ValidSession(p)
                    \/ pc[p] = "k_from" /\ op[p].user \in ADMINS
       /\ \A i \in 1..Len(orders') :
             orders'[i].status # "pending" => orders'[i].admin_id \in Operators]_vars

\* handler p takes a step of its own
Steps(p) == pc[p] # "done" /\ pc'[p] # pc[p]

\* C36: operations stay inside their row families: a toggle, the freeze of a
\* confirm and a reconcile of expired holds never change an order or a
\* session row, nor put one in a write set; approve and reject never change
\* a seat outside the show and seat list of their order, nor any other order
C36_RowFamilies ==
    [][/\ \A p \in Procs :
             (Steps(p) /\ (op[p].kind = "toggle" \/ pc[p] = "c_freeze"))
                 => /\ orders' = orders /\ sessions' = sessions
                    /\ wr'[p].orders = <<>> /\ wr'[p].sessDel = {}
       /\ (pc' = pc /\ seat' # seat) => (orders' = orders /\ sessions' = sessions)
       /\ \A p \in Procs :
             (Steps(p) /\ op[p].kind \in SettleKinds)
                 => /\ \A i \in 1..Len(orders) : i # op[p].order => orders'[i] = orders[i]
                    /\ Len(orders') = Len(orders)
                    /\ \A k \in DOMAIN seat :
                          seat'[k] # seat[k]
                              => /\ op[p].order \in 1..Len(orders)
                                 /\ k \in OrderKeys(op[p].order)
                    /\ DOMAIN seat' = DOMAIN seat]_vars

\* C36 witness: the second order, of the last seat of show 1, has just been
\* approved and its seat is sold, while the first seat of the show is held,
\* the first order is as it was and the other buyer has a session
C36_Witness ==
    \E p \in Procs :
        /\ op[p].kind = "approve" /\ pc[p] = "done" /\ op[p].order = 2
        /\ Len(orders) = 2
        /\ orders[2].status = "approved"
        /\ \A k \in OrderKeys(2) : seat[k].status = "sold"
        /\ \E k \in FirstSeat : k \notin OrderKeys(2) /\ seat[k].status = "held"
        /\ orders[1].status = "approved" /\ orders[1].user_id = "u2"
        /\ \E u \in Users : sessions[u] # Nil

\* the session of the sender of the message in slot p, as getUserState gives it
SenderState(p) == GetUserState(op[p].user)

\* C37: the receipt handler creates an order only when the session of the
\* sender is waiting_receipt with a show, a seat list and a total, and the
\* order has exactly the show, the seat list and the amount of the session; a
\* message in any other session state, or without a session, creates no
\* order and changes nothing
C37_ReceiptNeedsSession ==
    [][\A p \in Procs :
        /\ (Len(orders') > Len(orders))
               => (op[p].kind = "message" => CallsCreateOrder(p))
        /\ CallsCreateOrder(p)
               => /\ SenderState(p) # Nil
                  /\ Val(SenderState(p)).state = "waiting_receipt"
                  /\ Val(SenderState(p)).show_id # Nil
                  /\ Val(SenderState(p)).seats # Nil
                  /\ Val(SenderState(p)).total # Nil
                  /\ Len(orders') = Len(orders) + 1
                  /\ orders'[Len(orders')].user_id = op[p].user
                  /\ orders'[Len(orders')].show_id = Val(Val(SenderState(p)).show_id)
                  /\ SplitSeats(orders'[Len(orders')].seats) = Val(Val(SenderState(p)).seats)
                  /\ orders'[Len(orders')].amount = Val(Val(SenderState(p)).total)
        /\ (/\ op[p].kind = "message" /\ pc[p] = "m_get" /\ Steps(p)
            /\ (SenderState(p) = Nil \/ Val(SenderState(p)).state # "waiting_receipt"))
               => (db' = db /\ pc'[p] = "done" /\ ret'[p] = Returned("ignored"))]_vars

\* C37 witness: a receipt gave an order with the show, seats and total of the
\* sender's waiting_receipt session, which is not cleared yet
C37_Witness ==
    \E p \in Procs :
        /\ op[p].kind = "message" /\ pc[p] = "m_clear"
        /\ SenderState(p) # Nil
        /\ Val(SenderState(p)).state = "waiting_receipt"
        /\ Len(orders) >= 1
        /\ orders[Len(orders)].user_id = op[p].user
        /\ Some(orders[Len(orders)].show_id) = Val(SenderState(p)).show_id
        /\ Some(SplitSeats(orders[Len(orders)].seats)) = Val(SenderState(p)).seats
        /\ Some(orders[Len(orders)].amount) = Val(SenderState(p)).total

====
